---- MODULE Spec2Model ----
(***************************************************************************)
(* Verification model of the cross-source reconciliation engine:           *)
(* identifier normalization, type normalization, the schema check, the     *)
(* count check and the sample (data) comparison.                           *)
(*                                                                         *)
(* Python strings are modelled as sequences of one-character strings, so   *)
(* that split/strip/lower/replace/re.sub are computed character by         *)
(* character as the code computes them.                                    *)
(***************************************************************************)
EXTENDS Integers, Sequences, FiniteSets, TLC

VARIABLES
    nm_in,          \* the raw identifier handed to the normalizers
    nm_schema,      \* results of SchemaComparator.normalize_name: <<>>, <<n(s)>>, <<n(s), n(n(s))>>
    nm_data,        \* results of DataComparator.normalize_name, same shape
    ty_tok,         \* the raw type token handed to normalize_data_type, by its parts
    ty_out,         \* results of normalize_data_type: <<>>, <<n(t)>>, <<n(t), n(n(t))>>
    cnt_mappings,   \* check_counts: the mappings, in the order of the dict
    cnt_done,       \* check_counts: the number of mappings the loop has processed
    cnt_results,    \* check_counts: the results dict
    cnt_calls,      \* check_counts: the fetches issued so far, with what each returned or raised
    sch_mappings,   \* compare_schemas: the mappings, in the order of the dict
    sch_pc,         \* compare_schemas: "start", then "loop" once both catalogs are fetched
    sch_athena_df,  \* compare_schemas: athena_df, the rows of get_athena_columns
    sch_sql_df,     \* compare_schemas: sql_df, the rows of get_sqlserver_columns
    sch_done,       \* compare_schemas: the number of mappings the loop has processed
    sch_results,    \* compare_schemas: the results dict
    dc_pc,          \* data check of one table: "start", "fetched", "compared"
    dc_raw_athena,  \* the rows the Athena query returns, before standardization
    dc_raw_sql,     \* the rows the SQL Server query returns, before standardization
    dc_athena_df,   \* athena_data as get_athena_data returns it
    dc_sql_df,      \* sql_data as get_sqlserver_data returns it
    dc_cols,        \* selected_athena_cols and selected_sql_cols handed to compare_dataframes
    dc_mismatches,  \* the list compare_dataframes returns
    dc_status,      \* table_result['status'] after the comparison
    dc_summary,     \* compare_data: <<>>, then what building results['summary'] ended in
    dc_table,       \* compare_data: the mapping's primary_keys and what the catalogs hold for the table
    dc_issues,      \* compare_data: table_result['issues']
    sch_rerun,      \* the results dict of a second execution of compare_schemas on the same input
    sch_sql_rows,   \* compare_schemas: the rows the SQL Server catalog query returned
    ki_kind,        \* key checks: "duplicates" (check_duplicates) or "nulls" (check_nulls)
    ki_mappings,    \* key checks: the mappings, in the order of the dict
    ki_done,        \* key checks: the number of mappings the loop has processed
    ki_results,     \* key checks: the results dict
    ki_calls,       \* key checks: the fetches issued so far, with what each returned or raised
    run_pc,         \* main: the statement the run is at
    run_args,       \* main: the parsed arguments (output, tests)
    run_selected,   \* main: selected_tests
    run_env,        \* main: the state of the outside world (config file, sources)
    run_mappings,   \* main: config['mappings'], in the order of the dict
    run_results,    \* main: results['tests'], as the pairs <<test, payload>> in insertion order
    run_io          \* main: the accesses to the outside world so far

nameVars == <<nm_in, nm_schema, nm_data>>

typeVars == <<ty_tok, ty_out>>

countVars == <<cnt_mappings, cnt_done, cnt_results, cnt_calls>>

schemaVars == <<sch_mappings, sch_pc, sch_athena_df, sch_sql_df, sch_done, sch_results,
                sch_rerun, sch_sql_rows>>

keyVars == <<ki_kind, ki_mappings, ki_done, ki_results, ki_calls>>

runVars == <<run_pc, run_args, run_selected, run_env, run_mappings, run_results, run_io>>

dataVars == <<dc_pc, dc_raw_athena, dc_raw_sql, dc_athena_df, dc_sql_df, dc_cols,
              dc_mismatches, dc_status, dc_summary, dc_table, dc_issues>>

vars == <<nm_in, nm_schema, nm_data, ty_tok, ty_out,
          cnt_mappings, cnt_done, cnt_results, cnt_calls,
          sch_mappings, sch_pc, sch_athena_df, sch_sql_df, sch_done, sch_results,
          dc_pc, dc_raw_athena, dc_raw_sql, dc_athena_df, dc_sql_df, dc_cols,
          dc_mismatches, dc_status, dc_summary, dc_table, dc_issues, sch_rerun, sch_sql_rows,
          ki_kind, ki_mappings, ki_done, ki_results, ki_calls,
          run_pc, run_args, run_selected, run_env, run_mappings, run_results, run_io>>

----------------------------------------------------------------------------
(* Bounds                                                                  *)

MaxNameLen == 3

MaxArgDigit == 2

MaxTables == 2

MaxCount == 2

MaxCols == 2

MaxRows == 2

----------------------------------------------------------------------------
(* Character helpers (str methods of Python)                               *)

UpperChars == <<"A","B","C","D","E","F","G","H","I","J","K","L","M",
                "N","O","P","Q","R","S","T","U","V","W","X","Y","Z">>

LowerChars == <<"a","b","c","d","e","f","g","h","i","j","k","l","m",
                "n","o","p","q","r","s","t","u","v","w","x","y","z">>

DigitChars == <<"0","1","2","3","4","5","6","7","8","9">>

Range(f) == { f[i] : i \in DOMAIN f }

\* int(x) written in decimal, as an f-string writes it
RECURSIVE IntStr(_)
IntStr(n) ==
    IF n < 10 THEN <<DigitChars[n + 1]>>
    ELSE IntStr(n \div 10) \o <<DigitChars[(n % 10) + 1]>>

\* str.lower() on one character
LowerChar(c) ==
    IF \E i \in DOMAIN UpperChars : UpperChars[i] = c
    THEN LowerChars[CHOOSE i \in DOMAIN UpperChars : UpperChars[i] = c]
    ELSE c

\* str.lower()
Lower(s) == [i \in 1..Len(s) |-> LowerChar(s[i])]

\* the characters str.strip() removes
Whitespace == {" ", "\t", "\n", "\r"}

\* str.strip(chars): drop leading and trailing characters of the set
StripChars(s, cs) ==
    LET keep == { i \in 1..Len(s) : s[i] \notin cs }
    IN  IF keep = {} THEN <<>>
        ELSE LET lo == CHOOSE i \in keep : \A j \in keep : i <= j
                 hi == CHOOSE i \in keep : \A j \in keep : j <= i
             IN  SubSeq(s, lo, hi)

\* str.strip()
Strip(s) == StripChars(s, Whitespace)

\* str.replace(a, b) for single characters a, b
ReplaceChar(s, a, b) == [i \in 1..Len(s) |-> IF s[i] = a THEN b ELSE s[i]]

\* s.split(c)[-1]: what follows the last occurrence of c (all of s without one)
LastSegment(s, c) ==
    LET at == { i \in 1..Len(s) : s[i] = c }
    IN  IF at = {} THEN s
        ELSE SubSeq(s, (CHOOSE i \in at : \A j \in at : j <= i) + 1, Len(s))

\* s.split(c)[0]: what precedes the first occurrence of c (all of s without one)
FirstSegment(s, c) ==
    LET at == { i \in 1..Len(s) : s[i] = c }
    IN  IF at = {} THEN s
        ELSE SubSeq(s, 1, (CHOOSE i \in at : \A j \in at : i <= j) - 1)

\* re.sub('[^...]', '', s): keep only the characters of the set
KeepChars(s, cs) == SelectSeq(s, LAMBDA c : c \in cs)

\* the class [a-z0-9_] of both normalizers' re.sub
CanonicalChars == Range(LowerChars) \cup Range(DigitChars) \cup {"_"}

\* the characters DataComparator.normalize_name strips from both ends
\* (the backquote cannot be written in a TLA+ string: the atom Backquote stands for it)
Backquote == "BACKQUOTE"

QuoteChars == {"\"", "[", "]", Backquote}

\* concatenation of a sequence of sequences
RECURSIVE Flatten(_)
Flatten(ss) == IF ss = <<>> THEN <<>> ELSE ss[1] \o Flatten(Tail(ss))

----------------------------------------------------------------------------
(* Identifier normalizers                                                  *)

SchemaNormalizeNameNoFilter(name) ==
    ReplaceChar(Strip(Lower(LastSegment(name, "."))), " ", "_")

\* SchemaComparator.normalize_name
SchemaNormalizeName(name) ==
    KeepChars(ReplaceChar(Strip(Lower(LastSegment(name, "."))), " ", "_"),
              CanonicalChars)

\* DataComparator.normalize_name
DataNormalizeName(name) ==
    KeepChars(ReplaceChar(Strip(Lower(LastSegment(StripChars(name, QuoteChars), "."))), " ", "_"),
              CanonicalChars)

----------------------------------------------------------------------------
(* The state of the parts a specification does not exercise                *)

NameIdle == nm_in = <<>> /\ nm_schema = <<>> /\ nm_data = <<>>

TypeIdle == ty_tok = <<>> /\ ty_out = <<>>

SchemaIdle ==
    /\ sch_mappings = <<>> /\ sch_pc = "idle" /\ sch_athena_df = <<>> /\ sch_sql_df = <<>>
    /\ sch_done = 0 /\ sch_results = <<>> /\ sch_rerun = <<>> /\ sch_sql_rows = <<>>

DataIdle ==
    /\ dc_pc = "idle" /\ dc_raw_athena = <<>> /\ dc_raw_sql = <<>> /\ dc_athena_df = <<>>
    /\ dc_sql_df = <<>> /\ dc_cols = <<>> /\ dc_mismatches = <<>> /\ dc_status = "pending"
    /\ dc_summary = <<>> /\ dc_table = <<>> /\ dc_issues = <<>>

KeysIdle ==
    /\ ki_kind = "idle" /\ ki_mappings = <<>> /\ ki_done = 0 /\ ki_results = <<>>
    /\ ki_calls = <<>>

RunIdle ==
    /\ run_pc = "idle" /\ run_args = <<>> /\ run_selected = <<>> /\ run_env = <<>>
    /\ run_mappings = <<>> /\ run_results = <<>> /\ run_io = <<>>

CountIdle == cnt_mappings = <<>> /\ cnt_done = 0 /\ cnt_results = <<>> /\ cnt_calls = <<>>

----------------------------------------------------------------------------
(* Specification SpecName: both normalizers applied, and applied again,    *)
(* to every identifier over NameChars of at most MaxNameLen characters.    *)

NameChars == {"A", "b", "1", "_", " ", ".", "\"", "[", "-"}

SeqsUpTo(S, n) == UNION { [1..k -> S] : k \in 0..n }

NameInputs == SeqsUpTo(NameChars, MaxNameLen)

InitName ==
    /\ nm_in \in NameInputs
    /\ nm_schema = <<>>
    /\ nm_data = <<>>
    /\ TypeIdle
    /\ CountIdle
    /\ SchemaIdle
    /\ DataIdle
    /\ KeysIdle
    /\ RunIdle

\* one call of SchemaComparator.normalize_name, on the input and then on its own result
SchemaNormalizeStep ==
    /\ Len(nm_schema) < 2
    /\ nm_schema' = Append(nm_schema,
            SchemaNormalizeName(IF nm_schema = <<>> THEN nm_in ELSE nm_schema[1]))
    /\ UNCHANGED <<nm_in, nm_data>>
    /\ UNCHANGED <<typeVars, countVars, schemaVars, dataVars, keyVars, runVars>>

\* one call of DataComparator.normalize_name, on the input and then on its own result
DataNormalizeStep ==
    /\ Len(nm_data) < 2
    /\ nm_data' = Append(nm_data,
            DataNormalizeName(IF nm_data = <<>> THEN nm_in ELSE nm_data[1]))
    /\ UNCHANGED <<nm_in, nm_schema>>
    /\ UNCHANGED <<typeVars, countVars, schemaVars, dataVars, keyVars, runVars>>

NextName == SchemaNormalizeStep \/ DataNormalizeStep

SpecName == InitName /\ [][NextName]_vars

\* C7: both normalize_name implementations are idempotent, and their result
\* consists only of characters of [a-z0-9_].
C7_NormalizeIdempotentClosed ==
    /\ \A i \in DOMAIN nm_schema : Range(nm_schema[i]) \subseteq CanonicalChars
    /\ \A i \in DOMAIN nm_data : Range(nm_data[i]) \subseteq CanonicalChars
    /\ Len(nm_schema) = 2 => nm_schema[2] = nm_schema[1]
    /\ Len(nm_data) = 2 => nm_data[2] = nm_data[1]

\* an identifier with a quote, a qualifier and an upper-case letter has been
\* normalized twice by both implementations, to a non-empty name
C7_Witness ==
    /\ Len(nm_schema) = 2
    /\ Len(nm_data) = 2
    /\ nm_in = <<"\"", ".", "A">>
    /\ nm_schema[1] = <<"a">>
    /\ nm_data[1] = <<"a">>

\* C27: SchemaComparator.normalize_name and DataComparator.normalize_name
\* return the same canonical name for every identifier, quoted, bracketed,
\* schema-qualified or with blanks.
C27_NormalizersAgree ==
    (Len(nm_schema) >= 1 /\ Len(nm_data) >= 1) => nm_schema[1] = nm_data[1]

----------------------------------------------------------------------------
(* Type normalizer                                                         *)

\* whether sequence p is a prefix of s: str.startswith
StartsWith(s, p) == Len(p) <= Len(s) /\ SubSeq(s, 1, Len(p)) = p

\* str.replace(old, new): every non-overlapping occurrence, left to right
RECURSIVE ReplaceAll(_, _, _)
ReplaceAll(s, old, new) ==
    IF s = <<>> THEN <<>>
    ELSE IF StartsWith(s, old)
         THEN new \o ReplaceAll(SubSeq(s, Len(old) + 1, Len(s)), old, new)
         ELSE <<s[1]>> \o ReplaceAll(Tail(s), old, new)

\* re.sub(r'\s+', '', s)
RemoveWhitespace(s) == SelectSeq(s, LAMBDA c : c \notin Whitespace)

Str_decimal == <<"d","e","c","i","m","a","l">>

Str_numeric == <<"n","u","m","e","r","i","c">>

Str_varchar == <<"v","a","r","c","h","a","r">>

Str_integer == <<"i","n","t","e","g","e","r">>

Str_timestamp == <<"t","i","m","e","s","t","a","m","p">>

Str_boolean == <<"b","o","o","l","e","a","n">>

Str_money_canonical == <<"d","e","c","i","m","a","l","(","1","9",",","4",")">>

Str_nvarchar == <<"n","v","a","r","c","h","a","r">>

Str_string == <<"s","t","r","i","n","g">>

Str_nchar == <<"n","c","h","a","r">>

Str_char == <<"c","h","a","r">>

Str_text == <<"t","e","x","t">>

Str_int == <<"i","n","t">>

Str_bigint == <<"b","i","g","i","n","t">>

Str_smallint == <<"s","m","a","l","l","i","n","t">>

Str_tinyint == <<"t","i","n","y","i","n","t">>

Str_datetime == <<"d","a","t","e","t","i","m","e">>

Str_datetime2 == <<"d","a","t","e","t","i","m","e","2">>

Str_date == <<"d","a","t","e">>

Str_time == <<"t","i","m","e">>

Str_float == <<"f","l","o","a","t">>

Str_real == <<"r","e","a","l">>

Str_bit == <<"b","i","t">>

Str_binary == <<"b","i","n","a","r","y">>

Str_varbinary == <<"v","a","r","b","i","n","a","r","y">>

Str_uniqueidentifier == <<"u","n","i","q","u","e","i","d","e","n","t","i","f","i","e","r">>

Str_money == <<"m","o","n","e","y">>

Str_smalldatetime == <<"s","m","a","l","l","d","a","t","e","t","i","m","e">>

Str_uuid == <<"u","u","i","d">>

\* SchemaComparator.DATA_TYPE_MAPPING, in the order of the dict: <<pattern, normalized>>
DATA_TYPE_MAPPING == <<
    <<Str_nvarchar, Str_varchar>>,
    <<Str_string, Str_varchar>>,
    <<Str_nchar, Str_varchar>>,
    <<Str_char, Str_varchar>>,
    <<Str_text, Str_varchar>>,
    <<Str_int, Str_integer>>,
    <<Str_bigint, Str_integer>>,
    <<Str_smallint, Str_integer>>,
    <<Str_tinyint, Str_integer>>,
    <<Str_datetime, Str_timestamp>>,
    <<Str_datetime2, Str_timestamp>>,
    <<Str_date, Str_date>>,
    <<Str_time, Str_time>>,
    <<Str_float, Str_float>>,
    <<Str_real, Str_float>>,
    <<Str_bit, Str_boolean>>,
    <<Str_binary, Str_binary>>,
    <<Str_varbinary, Str_binary>>,
    <<Str_uniqueidentifier, Str_varchar>>,
    <<Str_money, Str_money_canonical>>,
    <<Str_smalldatetime, Str_timestamp>>,
    <<Str_uuid, Str_varchar>> >>

\* re.fullmatch(pattern, dtype); no key of DATA_TYPE_MAPPING holds a regular
\* expression metacharacter, so each pattern matches exactly its own text
FullMatch(pattern, dtype) == dtype = pattern

\* re.match(pattern, dtype): the pattern matches a prefix of dtype
PrefixMatch(pattern, dtype) == StartsWith(dtype, pattern)

LookupOrFallbackPrefix(dtype) ==
    LET hits == { i \in DOMAIN DATA_TYPE_MAPPING : PrefixMatch(DATA_TYPE_MAPPING[i][1], dtype) }
    IN  IF hits # {}
        THEN DATA_TYPE_MAPPING[CHOOSE i \in hits : \A j \in hits : i <= j][2]
        ELSE FirstSegment(dtype, "(")

\* the loop over DATA_TYPE_MAPPING.items(): the first matching entry's value,
\* and dtype.split('(')[0] when no entry matches
LookupOrFallback(dtype) ==
    LET hits == { i \in DOMAIN DATA_TYPE_MAPPING : FullMatch(DATA_TYPE_MAPPING[i][1], dtype) }
    IN  IF hits # {}
        THEN DATA_TYPE_MAPPING[CHOOSE i \in hits : \A j \in hits : i <= j][2]
        ELSE FirstSegment(dtype, "(")

DecimalBranchTruncating(dtype) == FirstSegment(ReplaceAll(dtype, Str_numeric, Str_decimal), "(")

\* the decimal branch of normalize_data_type
DecimalBranch(dtype) == RemoveWhitespace(ReplaceAll(dtype, Str_numeric, Str_decimal))

\* SchemaComparator.normalize_data_type, for a str argument
normalize_data_type(raw) ==
    LET dtype == Strip(Lower(raw))
    IN  IF StartsWith(dtype, Str_decimal) \/ StartsWith(dtype, Str_numeric)
        THEN DecimalBranch(dtype)
        ELSE LookupOrFallback(dtype)

----------------------------------------------------------------------------
(* Specification SpecType: normalize_data_type applied, and applied again, *)
(* to raw type tokens built from a family word in some letter case, an     *)
(* optional parenthesized argument list, optional blanks and an optional   *)
(* trailing qualifier.                                                     *)

TypeWords == {
    <<"D","E","C","I","M","A","L">>,
    <<"D","e","c","i","m","a","l">>,
    <<"n","u","m","e","r","i","c">>,
    <<"N","U","M","E","R","I","C">>,
    <<"N","V","A","R","C","H","A","R">>,
    <<"n","v","a","r","c","h","a","r">>,
    <<"v","a","r","c","h","a","r">>,
    <<"I","N","T">>,
    <<"i","n","t">>,
    <<"i","n","t","e","r","v","a","l">>,
    <<"t","i","n","y","i","n","t">>,
    <<"c","h","a","r","a","c","t","e","r">>,
    <<"d","a","t","e">>,
    <<"d","a","t","e","t","i","m","e","2">>,
    <<"m","o","n","e","y">>,
    <<"t","i","m","e","s","t","a","m","p">>,
    <<"w","e","i","r","d","_","t","y","p","e">>,
    <<"V","A","R","B","I","N","A","R","Y">>,
    <<"u","u","i","d">>,
    <<"b","i","t">> }

\* the digits a precision, scale or length is written with
ArgDigits == { DigitChars[d + 1] : d \in 1..MaxArgDigit }

\* one argument: one or two digits
TypeArgs == { <<a>> : a \in ArgDigits } \cup { <<a, b>> : a, b \in ArgDigits }

Blanks == { <<>>, <<" ">> }

Str_with_time_zone == <<" ","w","i","t","h"," ","t","i","m","e"," ","z","o","n","e">>

\* word, blank before the parenthesis, argument list (<<>>: no parentheses),
\* blank after the comma, text after the parenthesis, blank around the token
TypeTokens ==
    { [word |-> w, gap |-> g, args |-> a, sep |-> s, tail |-> t, pad |-> p] :
        w \in TypeWords, g \in Blanks, a \in SeqsUpTo(TypeArgs, 2), s \in Blanks,
        t \in { <<>>, Str_with_time_zone }, p \in Blanks }

WellFormedToken(tok) ==
    /\ tok.args = <<>> => tok.gap = <<>> /\ tok.tail = <<>>
    /\ Len(tok.args) < 2 => tok.sep = <<>>

\* the argument list as written: "(a)" or "(a,b)" with the blank after the comma
ArgText(tok) ==
    IF tok.args = <<>> THEN <<>>
    ELSE IF Len(tok.args) = 1 THEN <<"(">> \o tok.args[1] \o <<")">>
    ELSE <<"(">> \o tok.args[1] \o <<",">> \o tok.sep \o tok.args[2] \o <<")">>

\* the raw type string a catalog returns for the token
RawType(tok) == tok.pad \o tok.word \o tok.gap \o ArgText(tok) \o tok.tail \o tok.pad

InitType ==
    /\ ty_tok \in { tok \in TypeTokens : WellFormedToken(tok) }
    /\ ty_out = <<>>
    /\ NameIdle
    /\ CountIdle
    /\ SchemaIdle
    /\ DataIdle
    /\ KeysIdle
    /\ RunIdle

\* one call of normalize_data_type, on the raw type and then on its own result
NormalizeTypeStep ==
    /\ Len(ty_out) < 2
    /\ ty_out' = Append(ty_out,
            normalize_data_type(IF ty_out = <<>> THEN RawType(ty_tok) ELSE ty_out[1]))
    /\ UNCHANGED ty_tok
    /\ UNCHANGED <<nameVars, countVars, schemaVars, dataVars, keyVars, runVars>>

NextType == NormalizeTypeStep

SpecType == InitType /\ [][NextType]_vars

\* whether the token is a decimal or numeric type, with or without arguments
DenotesDecimal(tok) ==
    /\ Lower(tok.word) \in {Str_decimal, Str_numeric}
    /\ tok.tail = <<>>

\* the argument list with nothing but its parentheses, digits and comma
CanonicalArgText(tok) ==
    IF tok.args = <<>> THEN <<>>
    ELSE IF Len(tok.args) = 1 THEN <<"(">> \o tok.args[1] \o <<")">>
    ELSE <<"(">> \o tok.args[1] \o <<",">> \o tok.args[2] \o <<")">>

\* C8: a decimal or numeric token, in any letter case and with or without
\* precision/scale, normalizes to "decimal" followed by its parenthesized
\* precision/scale with all whitespace removed and nothing truncated.
C8_DecimalKeepsPrecision ==
    (Len(ty_out) >= 1 /\ DenotesDecimal(ty_tok))
        => ty_out[1] = Str_decimal \o CanonicalArgText(ty_tok)

\* "NUMERIC (12, 2)" has been normalized to "decimal(12,2)"
C8_Witness ==
    /\ Len(ty_out) >= 1
    /\ ty_tok.word = <<"N","U","M","E","R","I","C">>
    /\ ty_tok.gap = <<" ">>
    /\ ty_tok.args = << <<"1","2">>, <<"2">> >>
    /\ ty_tok.sep = <<" ">>
    /\ ty_tok.tail = <<>>
    /\ ty_out[1] = <<"d","e","c","i","m","a","l","(","1","2",",","2",")">>

\* the vendor synonyms of each canonical family
StringSynonyms == {Str_nvarchar, Str_string, Str_nchar, Str_char, Str_text,
                   Str_uniqueidentifier, Str_uuid}

IntegerSynonyms == {Str_int, Str_bigint, Str_smallint, Str_tinyint}

TimestampSynonyms == {Str_datetime, Str_datetime2, Str_smalldatetime}

FloatSynonyms == {Str_float, Str_real}

BinarySynonyms == {Str_binary, Str_varbinary}

Synonyms == StringSynonyms \cup IntegerSynonyms \cup TimestampSynonyms \cup FloatSynonyms
            \cup BinarySynonyms \cup {Str_date, Str_time, Str_bit, Str_money}

FamilyOf(t) ==
    CASE t \in StringSynonyms -> Str_varchar
      [] t \in IntegerSynonyms -> Str_integer
      [] t \in TimestampSynonyms -> Str_timestamp
      [] t \in FloatSynonyms -> Str_float
      [] t \in BinarySynonyms -> Str_binary
      [] t = Str_bit -> Str_boolean
      [] t = Str_money -> Str_money_canonical
      [] OTHER -> t

\* C9: a non-decimal token that is, as a whole string, a synonym of the
\* equivalence table normalizes to the synonym's family; any other token (one
\* that only contains or extends a synonym included) normalizes to itself cut
\* at its first opening parenthesis.
C9_TableByEqualityElseFallback ==
    (Len(ty_out) >= 1 /\ ~ StartsWith(Lower(ty_tok.word), Str_decimal)
                      /\ ~ StartsWith(Lower(ty_tok.word), Str_numeric))
        => IF ty_tok.args = <<>> /\ Lower(ty_tok.word) \in Synonyms
           THEN ty_out[1] = FamilyOf(Lower(ty_tok.word))
           ELSE ty_out[1] = Lower(ty_tok.word) \o (IF ty_tok.args = <<>> THEN <<>> ELSE ty_tok.gap)

\* "NVARCHAR(12)", which extends the synonym nvarchar, has fallen back to "nvarchar"
C9_Witness ==
    /\ Len(ty_out) >= 1
    /\ ty_tok.word = <<"N","V","A","R","C","H","A","R">>
    /\ ty_tok.args = << <<"1","2">> >>
    /\ ty_tok.gap = <<>>
    /\ ty_tok.tail = <<>>
    /\ ty_out[1] = Str_nvarchar

\* C28: normalize_data_type is idempotent: applied to its own result it
\* returns that result, for every raw type string, a vendor synonym with a
\* parenthesized length included.
C28_NormalizeTypeIdempotent ==
    Len(ty_out) = 2 => ty_out[2] = ty_out[1]

----------------------------------------------------------------------------
(* Table mappings                                                          *)

\* the athena table names of the mappings file, in the order of its keys:
\* t1, "T 2", t3, ...
TableName(i) ==
    IF i % 2 = 1 THEN <<"t">> \o IntStr(i) ELSE <<"T", " ">> \o IntStr(i)

\* config['mappings'] with n entries: athena table -> sql_table
Mappings(n) == [i \in 1..n |-> [athena_table |-> TableName(i),
                                sql_table |-> <<"d","b","o",".">> \o TableName(i)]]

----------------------------------------------------------------------------
(* Count check                                                             *)

\* what a fetch from a source can end in: a count, or an exception with its message
CountValues == (0..MaxCount) \cup {97, 100}

ErrorMessages == {"connection timed out"}

FetchOutcomes == [ok : {TRUE}, value : CountValues] \cup [ok : {FALSE}, message : ErrorMessages]

Abs(x) == IF x < 0 THEN -x ELSE x

CountDiffSigned(athena_count, sql_count) == athena_count - sql_count

\* diff = abs(athena_count - sql_count)
CountDiff(athena_count, sql_count) == Abs(athena_count - sql_count)

\* table_result as check_counts creates it at the top of the loop body
CountTableResult(m) ==
    [id |-> ReplaceChar(Lower(m.athena_table), " ", "_"),
     athena_name |-> m.athena_table,
     sql_name |-> m.sql_table,
     has_issues |-> FALSE,
     issues |-> <<>>,
     counts |-> <<>>]

\* the try block of check_counts once both counts are fetched
CountCompared(tr, athena_count, sql_count) ==
    LET counts == [athena_count |-> athena_count,
                   sql_count |-> sql_count,
                   status |-> IF athena_count = sql_count THEN "Match" ELSE "Mismatch",
                   status_class |-> IF athena_count = sql_count THEN "match" ELSE "error"]
    IN  IF athena_count # sql_count
        THEN [tr EXCEPT !.counts = counts,
                        !.issues = Append(@, [kind |-> "Row count mismatch",
                                              athena |-> athena_count,
                                              sql |-> sql_count,
                                              diff |-> CountDiff(athena_count, sql_count)]),
                        !.has_issues = TRUE]
        ELSE [tr EXCEPT !.counts = counts]

\* the except block of check_counts
CountFailed(tr, message) ==
    [tr EXCEPT !.issues = Append(@, [kind |-> "exception", message |-> message]),
               !.has_issues = TRUE]

\* results with one more table record appended and the matching total incremented
CountRecorded(results, tr) ==
    [results EXCEPT !.tables = Append(@, tr),
                    !.error_tables = IF tr.has_issues THEN @ + 1 ELSE @,
                    !.valid_tables = IF tr.has_issues THEN @ ELSE @ + 1]

FetchesIssuedOnBothSources(callA, callB) == <<callA, callB>>

\* the fetches the try block of a loop body issues for one table: the Athena
\* fetch, then the SQL Server fetch unless the Athena fetch raised
FetchesIssued(callA, callB) ==
    IF ~ callA.outcome.ok THEN <<callA>> ELSE <<callA, callB>>

\* the loop body of check_counts for mapping m, when get_athena_count ends in a
\* and get_sqlserver_count (called only if the first returned) ends in b
CountIteration(results, m, a, b) ==
    LET tr == CountTableResult(m)
    IN  CountRecorded(results,
            IF ~ a.ok THEN CountFailed(tr, a.message)
            ELSE IF ~ b.ok THEN CountFailed(tr, b.message)
            ELSE CountCompared(tr, a.value, b.value))

\* results as check_counts creates it
CountResultsInit(mappings) ==
    [total_tables |-> Len(mappings), valid_tables |-> 0, error_tables |-> 0, tables |-> <<>>]

\* check_counts(mappings), when the fetches for the i-th mapping end in a[i] and b[i]
RECURSIVE CheckCountsUpTo(_, _, _, _)
CheckCountsUpTo(mappings, a, b, k) ==
    IF k = 0 THEN CountResultsInit(mappings)
    ELSE CountIteration(CheckCountsUpTo(mappings, a, b, k - 1), mappings[k], a[k], b[k])

check_counts(mappings, a, b) == CheckCountsUpTo(mappings, a, b, Len(mappings))

InitCount ==
    /\ \E n \in 0..MaxTables :
          /\ cnt_mappings = Mappings(n)
          /\ cnt_results = CountResultsInit(Mappings(n))
    /\ cnt_done = 0
    /\ cnt_calls = <<>>
    /\ NameIdle
    /\ TypeIdle
    /\ SchemaIdle
    /\ DataIdle
    /\ KeysIdle
    /\ RunIdle

\* one iteration of the loop of check_counts: get_athena_count, then
\* get_sqlserver_count unless the first raised, then the comparison or the
\* except block, then the append
CheckCountsTable ==
    /\ cnt_done < Len(cnt_mappings)
    /\ LET m == cnt_mappings[cnt_done + 1]
       IN  \E a \in FetchOutcomes, b \in FetchOutcomes :
              /\ cnt_calls' = cnt_calls \o FetchesIssued(
                                  [source |-> "athena", table |-> m.athena_table, outcome |-> a],
                                  [source |-> "sql", table |-> m.sql_table, outcome |-> b])
              /\ cnt_results' = CountIteration(cnt_results, m, a, b)
    /\ cnt_done' = cnt_done + 1
    /\ UNCHANGED cnt_mappings
    /\ UNCHANGED <<nameVars, typeVars, schemaVars, dataVars, keyVars, runVars>>

NextCount == CheckCountsTable

SpecCount == InitCount /\ [][NextCount]_vars

\* the counts the two sources returned for the i-th mapping, when both returned one
ReturnedCounts(i) ==
    LET m == cnt_mappings[i]
        a == { k \in DOMAIN cnt_calls : cnt_calls[k].source = "athena"
                                        /\ cnt_calls[k].table = m.athena_table }
        b == { k \in DOMAIN cnt_calls : cnt_calls[k].source = "sql"
                                        /\ cnt_calls[k].table = m.sql_table }
    IN  IF a # {} /\ b # {} /\ (\A k \in a \cup b : cnt_calls[k].outcome.ok)
        THEN << <<cnt_calls[CHOOSE k \in a : TRUE].outcome.value,
                  cnt_calls[CHOOSE k \in b : TRUE].outcome.value>> >>
        ELSE <<>>

\* C10: for every pair of counts (a, b) the sources returned for a table, the
\* table's status is match iff a = b, and when they differ the table is a
\* mismatch whose single issue records |a - b|.
C10_CountMatchIffEqual ==
    \A i \in DOMAIN cnt_results.tables :
        LET tr == cnt_results.tables[i]
            rc == ReturnedCounts(i)
        IN  rc # <<>> =>
              LET a == rc[1][1]
                  b == rc[1][2]
              IN  /\ tr.counts.athena_count = a /\ tr.counts.sql_count = b
                  /\ (tr.counts.status_class = "match") <=> (a = b)
                  /\ (tr.counts.status = "Match") <=> (a = b)
                  /\ tr.has_issues <=> (a # b)
                  /\ a = b => tr.issues = <<>>
                  /\ a # b => /\ Len(tr.issues) = 1
                              /\ tr.issues[1].kind = "Row count mismatch"
                              /\ tr.issues[1].diff = (IF a > b THEN a - b ELSE b - a)

\* counts (97, 100) have been compared: a mismatch with difference 3
C10_Witness ==
    /\ cnt_done >= 1
    /\ ReturnedCounts(1) = << <<97, 100>> >>
    /\ cnt_results.tables[1].counts.status = "Mismatch"
    /\ cnt_results.tables[1].issues[1].diff = 3
    /\ cnt_results.error_tables = 1

----------------------------------------------------------------------------
(* Key-integrity checks: check_duplicates and check_nulls                  *)

\* config primary_keys of a mapping: absent or empty, one key, two keys
KeyLists == { <<>>, <<"id">>, <<"id", "region">> }

\* config['mappings'] with n entries, each with its primary_keys
KeyMappings(n) ==
    { [i \in 1..n |-> [athena_table |-> Mappings(n)[i].athena_table,
                       sql_table |-> Mappings(n)[i].sql_table,
                       primary_keys |-> pk[i]]] : pk \in [1..n -> KeyLists] }

\* df.to_dict('records') of a duplicate query: no record, one, two
DuplicateRecords == { <<>>,
                      <<[id |-> 7, cnt |-> 2]>>,
                      <<[id |-> 7, cnt |-> 2], [id |-> 9, cnt |-> 3]>> }

\* what a duplicate fetch can end in: the records, or an exception with its message
DuplicateOutcomes ==
    [ok : {TRUE}, value : DuplicateRecords] \cup [ok : {FALSE}, message : ErrorMessages]

\* the number of NULLs a null query counts for a key
NullCountValues == {0, 3}

\* what a null fetch can end in: the count of each key, in the order of
\* primary_keys, or an exception with its message
NullOutcomes(keys) ==
    [ok : {TRUE}, value : [1..Len(keys) -> NullCountValues]]
    \cup [ok : {FALSE}, message : ErrorMessages]

\* a call of get_athena_nulls or get_sqlserver_nulls with the queries it
\* sent, one per key column in list order: all of them when it returned,
\* those up to the one that raised otherwise (none when connecting raised)
NullFetch(source, table, keys, outcome, j) ==
    [source |-> source, table |-> table, outcome |-> outcome,
     queries |-> IF outcome.ok THEN keys ELSE SubSeq(keys, 1, j)]

\* table_result as check_duplicates creates it at the top of the loop body
DuplicateTableResult(m) ==
    [id |-> ReplaceChar(Lower(m.athena_table), " ", "_"),
     athena_name |-> m.athena_table,
     sql_name |-> m.sql_table,
     has_issues |-> FALSE,
     issues |-> <<>>,
     duplicates |-> <<>>]

\* table_result as check_nulls creates it at the top of the loop body
NullTableResult(m) ==
    [id |-> ReplaceChar(Lower(m.athena_table), " ", "_"),
     athena_name |-> m.athena_table,
     sql_name |-> m.sql_table,
     has_issues |-> FALSE,
     issues |-> <<>>,
     nulls |-> <<>>]

SkippedIssue == [kind |-> "Skipped: No primary keys specified"]

\* the `if not primary_keys` branch of either check, up to the append
KeySkipped(tr) ==
    [tr EXCEPT !.issues = Append(@, SkippedIssue),
               !.has_issues = TRUE]

KeySkippedUncounted(results, tr) ==
    [results EXCEPT !.tables = Append(@, tr)]

\* results after the `if not primary_keys` branch
KeySkippedRecorded(results, tr) ==
    [results EXCEPT !.tables = Append(@, tr),
                    !.error_tables = @ + 1]

\* the try block of check_duplicates once both lists are fetched
DuplicatesCompared(tr, athena_dupes, sql_dupes) ==
    LET has_dupes == athena_dupes # <<>> \/ sql_dupes # <<>>
        found(source, dupes) ==
            IF dupes # <<>>
            THEN <<[kind |-> "Found duplicate sets", source |-> source, count |-> Len(dupes)]>>
            ELSE <<>>
        issues == found("Athena", athena_dupes) \o found("SQL Server", sql_dupes)
    IN  [tr EXCEPT !.duplicates = [athena_duplicates |-> athena_dupes,
                                   sql_duplicates |-> sql_dupes,
                                   status |-> IF has_dupes THEN "Duplicate Found"
                                              ELSE "No Duplicates",
                                   status_class |-> IF has_dupes THEN "error" ELSE "match"],
                   !.issues = @ \o issues,
                   !.has_issues = (issues # <<>>)]

\* the try block of check_nulls once both dicts are fetched
NullsCompared(tr, keys, athena_nulls, sql_nulls) ==
    LET has_nulls == \/ \E i \in DOMAIN athena_nulls : athena_nulls[i] > 0
                     \/ \E i \in DOMAIN sql_nulls : sql_nulls[i] > 0
        found(source, nulls) ==
            Flatten([i \in 1..Len(keys) |->
                IF nulls[i] > 0
                THEN <<[kind |-> "Column has NULLs", source |-> source,
                        column |-> keys[i], count |-> nulls[i]]>>
                ELSE <<>>])
        issues == found("Athena", athena_nulls) \o found("SQL Server", sql_nulls)
    IN  [tr EXCEPT !.nulls = [athena_nulls |-> athena_nulls,
                              sql_nulls |-> sql_nulls,
                              status |-> IF has_nulls THEN "Nulls Found" ELSE "No Nulls",
                              status_class |-> IF has_nulls THEN "error" ELSE "match"],
                   !.issues = @ \o issues,
                   !.has_issues = (issues # <<>>)]

\* an except block that leaves has_issues as it was
KeyFailedUnflagged(tr, message) ==
    [tr EXCEPT !.issues = Append(@, [kind |-> "exception", message |-> message])]

\* the except block of either check
KeyFailed(tr, message) ==
    [tr EXCEPT !.issues = Append(@, [kind |-> "exception", message |-> message]),
               !.has_issues = TRUE]

\* results with one more table record appended and the matching total incremented
KeyRecorded(results, tr) ==
    [results EXCEPT !.tables = Append(@, tr),
                    !.error_tables = IF tr.has_issues THEN @ + 1 ELSE @,
                    !.valid_tables = IF tr.has_issues THEN @ ELSE @ + 1]

\* the loop body of check_duplicates for mapping m, when the two fetches (the
\* second called only if the first returned) end in a and b
DuplicateIteration(results, m, a, b) ==
    LET tr == DuplicateTableResult(m)
    IN  IF m.primary_keys = <<>> THEN KeySkippedRecorded(results, KeySkipped(tr))
        ELSE KeyRecorded(results,
                IF ~ a.ok THEN KeyFailed(tr, a.message)
                ELSE IF ~ b.ok THEN KeyFailed(tr, b.message)
                ELSE DuplicatesCompared(tr, a.value, b.value))

\* the loop body of check_nulls, likewise
NullIteration(results, m, a, b) ==
    LET tr == NullTableResult(m)
    IN  IF m.primary_keys = <<>> THEN KeySkippedRecorded(results, KeySkipped(tr))
        ELSE KeyRecorded(results,
                IF ~ a.ok THEN KeyFailed(tr, a.message)
                ELSE IF ~ b.ok THEN KeyFailed(tr, b.message)
                ELSE NullsCompared(tr, m.primary_keys, a.value, b.value))

\* results as either check creates it
KeyResultsInit(mappings) ==
    [total_tables |-> Len(mappings), valid_tables |-> 0, error_tables |-> 0, tables |-> <<>>]

\* check_duplicates(mappings) and check_nulls(mappings), when the fetches for
\* the i-th mapping end in a[i] and b[i]
RECURSIVE CheckDuplicatesUpTo(_, _, _, _)
CheckDuplicatesUpTo(mappings, a, b, k) ==
    IF k = 0 THEN KeyResultsInit(mappings)
    ELSE DuplicateIteration(CheckDuplicatesUpTo(mappings, a, b, k - 1), mappings[k], a[k], b[k])

check_duplicates(mappings, a, b) == CheckDuplicatesUpTo(mappings, a, b, Len(mappings))

RECURSIVE CheckNullsUpTo(_, _, _, _)
CheckNullsUpTo(mappings, a, b, k) ==
    IF k = 0 THEN KeyResultsInit(mappings)
    ELSE NullIteration(CheckNullsUpTo(mappings, a, b, k - 1), mappings[k], a[k], b[k])

check_nulls(mappings, a, b) == CheckNullsUpTo(mappings, a, b, Len(mappings))

InitKeys ==
    /\ ki_kind \in {"duplicates", "nulls"}
    /\ \E n \in 0..MaxTables :
          /\ ki_mappings \in KeyMappings(n)
          /\ ki_results = KeyResultsInit(ki_mappings)
    /\ ki_done = 0
    /\ ki_calls = <<>>
    /\ NameIdle
    /\ TypeIdle
    /\ CountIdle
    /\ SchemaIdle
    /\ DataIdle
    /\ RunIdle

\* one iteration of the loop of check_duplicates: the skip, or
\* get_athena_duplicates, then get_sqlserver_duplicates unless the first
\* raised, then the comparison or the except block, then the append
CheckDuplicatesTable ==
    /\ ki_kind = "duplicates"
    /\ ki_done < Len(ki_mappings)
    /\ LET m == ki_mappings[ki_done + 1]
           none == [ok |-> FALSE, message |-> "not called"]
       IN  IF m.primary_keys = <<>>
           THEN /\ ki_results' = DuplicateIteration(ki_results, m, none, none)
                /\ UNCHANGED ki_calls
           ELSE \E a \in DuplicateOutcomes, b \in DuplicateOutcomes :
                  /\ ki_calls' = ki_calls \o FetchesIssued(
                                     [source |-> "athena", table |-> m.athena_table, outcome |-> a],
                                     [source |-> "sql", table |-> m.sql_table, outcome |-> b])
                  /\ ki_results' = DuplicateIteration(ki_results, m, a, b)
    /\ ki_done' = ki_done + 1
    /\ UNCHANGED <<ki_kind, ki_mappings>>
    /\ UNCHANGED <<nameVars, typeVars, countVars, schemaVars, dataVars, runVars>>

\* one iteration of the loop of check_nulls, of the same shape
CheckNullsTable ==
    /\ ki_kind = "nulls"
    /\ ki_done < Len(ki_mappings)
    /\ LET m == ki_mappings[ki_done + 1]
           none == [ok |-> FALSE, message |-> "not called"]
       IN  IF m.primary_keys = <<>>
           THEN /\ ki_results' = NullIteration(ki_results, m, none, none)
                /\ UNCHANGED ki_calls
           ELSE \E a \in NullOutcomes(m.primary_keys), b \in NullOutcomes(m.primary_keys),
                   ja \in 0..Len(m.primary_keys), jb \in 0..Len(m.primary_keys) :
                  /\ ki_calls' = ki_calls \o FetchesIssued(
                                     NullFetch("athena", m.athena_table, m.primary_keys, a, ja),
                                     NullFetch("sql", m.sql_table, m.primary_keys, b, jb))
                  /\ ki_results' = NullIteration(ki_results, m, a, b)
    /\ ki_done' = ki_done + 1
    /\ UNCHANGED <<ki_kind, ki_mappings>>
    /\ UNCHANGED <<nameVars, typeVars, countVars, schemaVars, dataVars, runVars>>

NextKeys == CheckDuplicatesTable \/ CheckNullsTable

SpecKeys == InitKeys /\ [][NextKeys]_vars

\* the fetches issued for the i-th mapping
KeyCallsFor(i) ==
    { k \in DOMAIN ki_calls :
        \/ ki_calls[k].source = "athena" /\ ki_calls[k].table = ki_mappings[i].athena_table
        \/ ki_calls[k].source = "sql" /\ ki_calls[k].table = ki_mappings[i].sql_table }

\* the recorded tables that are flagged although they were not skipped
FlaggedNotSkipped ==
    { j \in DOMAIN ki_results.tables :
        ki_mappings[j].primary_keys # <<>> /\ ki_results.tables[j].has_issues }

\* C11: in the duplicate check a mapping with empty primary_keys is skipped,
\* not errored: no duplicate query is issued for it, its record carries the
\* explanatory issue, and it is neither flagged nor counted in error_tables.
C11_EmptyKeysSkippedNotError ==
    ki_kind = "duplicates" =>
        \A i \in DOMAIN ki_results.tables :
            ki_mappings[i].primary_keys = <<>> =>
                /\ KeyCallsFor(i) = {}
                /\ ki_results.tables[i].issues = <<SkippedIssue>>
                /\ ~ ki_results.tables[i].has_issues
                /\ ki_results.error_tables = Cardinality(FlaggedNotSkipped)

\* C15: in a per-table check, with N table results of which K are
\* mismatches or errors, error_tables is K and valid_tables is N - K; a
\* skipped table is not among the K.
C15_TotalsCountMismatchOrError ==
    ki_kind \in {"duplicates", "nulls"} =>
        LET N == Len(ki_results.tables)
            K == Cardinality(FlaggedNotSkipped)
        IN  /\ ki_results.error_tables = K
            /\ ki_results.valid_tables = N - K

----------------------------------------------------------------------------
(* The three per-table checks side by side: count, duplicates, nulls       *)

InitTableChecks == InitCount \/ InitKeys

NextTableChecks == NextCount \/ NextKeys

SpecTableChecks == InitTableChecks /\ [][NextTableChecks]_vars

\* the messages of the fetches that raised for a table of the count check
CountRaisedFor(i) ==
    { cnt_calls[k].outcome.message :
        k \in { k \in DOMAIN cnt_calls :
                  /\ ~ cnt_calls[k].outcome.ok
                  /\ \/ cnt_calls[k].source = "athena"
                        /\ cnt_calls[k].table = cnt_mappings[i].athena_table
                     \/ cnt_calls[k].source = "sql"
                        /\ cnt_calls[k].table = cnt_mappings[i].sql_table } }

\* the messages of the fetches that raised for a table of a key check
KeyRaisedFor(i) ==
    { ki_calls[k].outcome.message : k \in { k \in KeyCallsFor(i) : ~ ki_calls[k].outcome.ok } }

\* C12: in the count, duplicate and null checks a fetch that raises for a
\* table makes that table's record an error record whose issues hold the
\* exception's message; the loop goes on, so that there is one record per
\* processed mapping, in order, and the next mapping can always be processed.
C12_FetchFailureContained ==
    /\ ki_kind = "idle" =>
          /\ Len(cnt_results.tables) = cnt_done
          /\ cnt_results.error_tables + cnt_results.valid_tables = cnt_done
          /\ cnt_done < Len(cnt_mappings) => ENABLED CheckCountsTable
          /\ \A i \in DOMAIN cnt_results.tables :
                /\ cnt_results.tables[i].athena_name = cnt_mappings[i].athena_table
                /\ \A msg \in CountRaisedFor(i) :
                      /\ cnt_results.tables[i].issues = <<[kind |-> "exception", message |-> msg]>>
                      /\ cnt_results.tables[i].has_issues
                      /\ cnt_results.tables[i].counts = <<>>
    /\ ki_kind \in {"duplicates", "nulls"} =>
          /\ Len(ki_results.tables) = ki_done
          /\ ki_results.error_tables + ki_results.valid_tables = ki_done
          /\ ki_done < Len(ki_mappings) => ENABLED NextKeys
          /\ \A i \in DOMAIN ki_results.tables :
                /\ ki_results.tables[i].athena_name = ki_mappings[i].athena_table
                /\ \A msg \in KeyRaisedFor(i) :
                      /\ ki_results.tables[i].issues = <<[kind |-> "exception", message |-> msg]>>
                      /\ ki_results.tables[i].has_issues
                      /\ ki_results.error_tables >= 1

\* the duplicate check, two mappings: the SQL Server fetch of the first raised,
\* and the second table was fetched from both sources and compared
C12_Witness ==
    /\ ki_kind = "duplicates"
    /\ ki_done = 2
    /\ Len(ki_calls) = 4
    /\ ~ ki_calls[2].outcome.ok
    /\ ki_results.tables[1].issues = <<[kind |-> "exception", message |-> ki_calls[2].outcome.message]>>
    /\ ki_calls[3].outcome.ok /\ ki_calls[4].outcome.ok
    /\ ki_results.tables[2].duplicates.status = "No Duplicates"
    /\ ki_results.error_tables = 1
    /\ ki_results.valid_tables = 1

(***************************************************************************)
(* No retry and a fixed order of the fetches (count_check.py 90-116,       *)
(* duplicate_check.py 104-132, null_check.py 16-74, 104-132).              *)
(***************************************************************************)

\* the calls logged by the check that ran
ChecksCalls == IF ki_kind = "idle" THEN cnt_calls ELSE ki_calls

ChecksMappings == IF ki_kind = "idle" THEN cnt_mappings ELSE ki_mappings

\* positions in the log of the fetches of one source for one table
FetchesOf(source, table) ==
    { k \in DOMAIN ChecksCalls :
        ChecksCalls[k].source = source /\ ChecksCalls[k].table = table }

\* a null fetch sent one query per key column, in list order, none twice
QueriesOncePerKey(call, keys) ==
    "queries" \in DOMAIN call =>
        /\ Len(call.queries) <= Len(keys)
        /\ call.queries = SubSeq(keys, 1, Len(call.queries))
        /\ \A p, q \in DOMAIN call.queries :
              p # q => call.queries[p] # call.queries[q]
        /\ call.outcome.ok => call.queries = keys

----------------------------------------------------------------------------
(* Schema check                                                            *)

\* SchemaComparator.IGNORE_COLUMNS
IGNORE_COLUMNS == {
    <<"c","o","u","n","t","r","y","_","c","o","d","e">>,
    <<"_","s","t","a","r","t","_","t","i","m","e">>,
    <<"_","w","i","n","d","o","w","_","e","n","d">>,
    <<"_","_","l","k","_","v","a","l","i","d","a","t","i","o","n","_","f","a","i","l","u","r","e","s">> }

Str_row_version == <<"r","o","w","_","v","e","r","s","i","o","n">>

Str_dbo == <<"d","b","o">>

\* format_sql_type of get_sqlserver_columns; a NULL precision or scale is <<>>
format_sql_type(row) ==
    LET dtype == Lower(row.raw_data_type)
    IN  IF dtype \in {Str_decimal, Str_numeric} /\ row.NUMERIC_PRECISION # <<>>
        THEN Str_decimal \o <<"(">> \o IntStr(row.NUMERIC_PRECISION[1]) \o <<",">>
             \o IntStr(IF row.NUMERIC_SCALE # <<>> THEN row.NUMERIC_SCALE[1] ELSE 0)
             \o <<")">>
        ELSE dtype

\* get_athena_columns: the columns the function adds to each row of the query
AthenaColumnsRow(r) ==
    [original_name |-> r.original_name,
     column_name |-> r.column_name,
     normalized_table_name |-> SchemaNormalizeName(r.original_name),
     normalized_name |-> SchemaNormalizeName(r.column_name),
     data_type |-> normalize_data_type(r.data_type)]

\* get_sqlserver_columns: the columns the function adds to each row of the query
SqlColumnsRow(r) ==
    [schema_name |-> r.schema_name,
     original_name |-> r.original_name,
     column_name |-> r.column_name,
     normalized_table_name |-> SchemaNormalizeName(r.original_name),
     normalized_schema |-> SchemaNormalizeName(r.schema_name),
     normalized_name |-> SchemaNormalizeName(r.column_name),
     data_type |-> normalize_data_type(format_sql_type(r))]

\* df[df[col] == v].iloc[0]: the first row of the frame with the canonical name
FirstRow(rows, norm_col) ==
    rows[CHOOSE i \in DOMAIN rows :
            /\ rows[i].normalized_name = norm_col
            /\ \A j \in DOMAIN rows : rows[j].normalized_name = norm_col => i <= j]

FilterIgnoredNothing(names) == names

FilterIgnoredUnderscored(names) ==
    { c \in names : c \notin { d \in IGNORE_COLUMNS : d[1] = "_" } }

\* {c for c in names if c not in self.IGNORE_COLUMNS}
FilterIgnored(names) == { c \in names : c \notin IGNORE_COLUMNS }

CompatibilityExceptionAnyColumn(norm_col, athena_type, sql_type) ==
    athena_type = Str_integer /\ sql_type = Str_binary

\* the exception of compare_schemas: row_version, Athena integer, SQL Server binary
CompatibilityException(norm_col, athena_type, sql_type) ==
    /\ norm_col = Str_row_version
    /\ athena_type = Str_integer
    /\ sql_type = Str_binary

\* col_result of a column of common_cols
CommonEntry(athena_cols, sql_cols, norm_col) ==
    LET athena_row == FirstRow(athena_cols, norm_col)
        sql_row == FirstRow(sql_cols, norm_col)
        types_match == \/ athena_row.data_type = sql_row.data_type
                       \/ CompatibilityException(norm_col, athena_row.data_type, sql_row.data_type)
    IN  [normalized_name |-> norm_col,
         athena_column |-> athena_row.column_name,
         sql_column |-> sql_row.column_name,
         athena_type |-> athena_row.data_type,
         sql_type |-> sql_row.data_type,
         status |-> IF types_match THEN "Match" ELSE "Type Mismatch",
         status_class |-> IF types_match THEN "match" ELSE "error"]

\* the placeholder '—' of a side that has no such column
Dash == <<"-">>

\* the entry of a column of sql_only
SqlOnlyEntry(sql_cols, norm_col) ==
    LET sql_row == FirstRow(sql_cols, norm_col)
    IN  [normalized_name |-> norm_col,
         athena_column |-> Dash,
         sql_column |-> sql_row.column_name,
         athena_type |-> Dash,
         sql_type |-> sql_row.data_type,
         status |-> "Missing in Athena",
         status_class |-> "warning"]

\* the entry of a column of athena_only
AthenaOnlyEntry(athena_cols, norm_col) ==
    LET athena_row == FirstRow(athena_cols, norm_col)
    IN  [normalized_name |-> norm_col,
         athena_column |-> athena_row.column_name,
         sql_column |-> Dash,
         athena_type |-> athena_row.data_type,
         sql_type |-> Dash,
         status |-> "Missing in SQL Server",
         status_class |-> "warning"]

\* the issue compare_schemas appends together with an entry that is no Match
EntryIssue(e) ==
    IF e.status = "Type Mismatch"
    THEN [kind |-> "Type mismatch", athena_column |-> e.athena_column,
          athena_type |-> e.athena_type, sql_column |-> e.sql_column, sql_type |-> e.sql_type]
    ELSE IF e.status = "Missing in Athena"
    THEN [kind |-> "Column missing in Athena", column |-> e.sql_column]
    ELSE [kind |-> "Column missing in SQL Server", column |-> e.athena_column]

\* the orders in which a Python set can be iterated
Perms(S) == { p \in [1..Cardinality(S) -> S] : \A i, j \in DOMAIN p : p[i] = p[j] => i = j }

\* table_result as compare_schemas creates it at the top of the loop body
SchemaTableResult(m) ==
    [id |-> SchemaNormalizeName(m.athena_table),
     athena_name |-> m.athena_table,
     sql_name |-> m.sql_table,
     has_issues |-> FALSE,
     issues |-> <<>>,
     columns |-> <<>>]

\* str.split('.', 1): what precedes and what follows the first dot
BeforeFirstDot(s) == FirstSegment(s, ".")

AfterFirstDot(s) ==
    LET at == { i \in 1..Len(s) : s[i] = "." }
    IN  SubSeq(s, (CHOOSE i \in at : \A j \in at : i <= j) + 1, Len(s))

\* norm_sql_schema and norm_sql_table of a mapping
NormSqlSchema(sql_table_full) ==
    IF "." \in Range(sql_table_full)
    THEN SchemaNormalizeName(BeforeFirstDot(sql_table_full))
    ELSE Str_dbo

NormSqlTable(sql_table_full) ==
    IF "." \in Range(sql_table_full)
    THEN SchemaNormalizeName(AfterFirstDot(sql_table_full))
    ELSE SchemaNormalizeName(sql_table_full)

\* athena_cols and sql_cols_subset of a mapping
AthenaColsOf(athena_df, m) ==
    SelectSeq(athena_df, LAMBDA r : r.normalized_table_name = SchemaNormalizeName(m.athena_table))

SqlColsOf(sql_df, m) ==
    SelectSeq(sql_df, LAMBDA r : /\ r.normalized_schema = NormSqlSchema(m.sql_table)
                                 /\ r.normalized_table_name = NormSqlTable(m.sql_table))

\* the record of a table missing on one side
MissingTable(tr, side, name) ==
    [tr EXCEPT !.issues = Append(@, [kind |-> "Table missing", side |-> side, table |-> name]),
               !.has_issues = TRUE]

TableColumnsCommonOnBothLists(athena_cols, sql_cols, common_order, sql_only_order, athena_only_order) ==
    [i \in 1..Len(common_order) |-> CommonEntry(athena_cols, sql_cols, common_order[i])]
    \o [i \in 1..Len(sql_only_order) |-> SqlOnlyEntry(sql_cols, sql_only_order[i])]
    \o [i \in 1..Len(athena_only_order) |-> AthenaOnlyEntry(athena_cols, athena_only_order[i])]
    \o [i \in 1..Len(common_order) |-> AthenaOnlyEntry(athena_cols, common_order[i])]

TableColumnsWithoutAthenaOnly(athena_cols, sql_cols, common_order, sql_only_order, athena_only_order) ==
    [i \in 1..Len(common_order) |-> CommonEntry(athena_cols, sql_cols, common_order[i])]
    \o [i \in 1..Len(sql_only_order) |-> SqlOnlyEntry(sql_cols, sql_only_order[i])]

\* table_result['columns'] after the three loops, for one iteration order of
\* the three sets
TableColumns(athena_cols, sql_cols, common_order, sql_only_order, athena_only_order) ==
    [i \in 1..Len(common_order) |-> CommonEntry(athena_cols, sql_cols, common_order[i])]
    \o [i \in 1..Len(sql_only_order) |-> SqlOnlyEntry(sql_cols, sql_only_order[i])]
    \o [i \in 1..Len(athena_only_order) |-> AthenaOnlyEntry(athena_cols, athena_only_order[i])]

\* the record of a table present on both sides, for one iteration order of the
\* three sets
ComparedTable(tr, athena_cols, sql_cols, common_order, sql_only_order, athena_only_order) ==
    LET columns == TableColumns(athena_cols, sql_cols, common_order, sql_only_order,
                                athena_only_order)
        flagged == SelectSeq(columns, LAMBDA e : e.status # "Match")
        issues == [i \in 1..Len(flagged) |-> EntryIssue(flagged[i])]
    IN  [tr EXCEPT !.columns = columns,
                   !.issues = issues,
                   !.has_issues = Len(issues) > 0]

\* results with one more table record appended and the matching total incremented
SchemaRecorded(results, tr) ==
    [results EXCEPT !.tables = Append(@, tr),
                    !.error_tables = IF tr.has_issues THEN @ + 1 ELSE @,
                    !.valid_tables = IF tr.has_issues THEN @ ELSE @ + 1]

\* the column names and raw types the two catalogs hold
AthenaColumnNames == { <<"i","d">>, <<"r","o","w","_","v","e","r","s","i","o","n">>, <<"c","o","u","n","t","r","y","_","c","o","d","e">> }

SqlColumnNames == { <<"I","D">>, <<"R","o","w"," ","V","e","r","s","i","o","n">>, <<"r","o","w","_","v","e","r","s","i","o","n">>, <<"c","o","u","n","t","r","y","_","c","o","d","e">> }

AthenaRawTypes == { Str_integer, Str_varbinary }

SqlRawTypes == { [raw_data_type |-> Str_int, NUMERIC_PRECISION |-> <<10>>, NUMERIC_SCALE |-> <<0>>],
                 [raw_data_type |-> Str_binary, NUMERIC_PRECISION |-> <<>>, NUMERIC_SCALE |-> <<>>],
                 [raw_data_type |-> Str_decimal, NUMERIC_PRECISION |-> <<5>>, NUMERIC_SCALE |-> <<2>>] }

\* the rows information_schema.columns holds for a table: at most MaxCols
\* columns, no column name twice
DistinctNames(rows) == \A i, j \in DOMAIN rows : rows[i].column_name = rows[j].column_name => i = j

AthenaCatalogRows(table) ==
    { rows \in SeqsUpTo([original_name : {table}, column_name : AthenaColumnNames,
                         data_type : AthenaRawTypes], MaxCols) : DistinctNames(rows) }

SqlCatalogRows(schema, table) ==
    { rows \in SeqsUpTo({ [schema_name |-> schema, original_name |-> table, column_name |-> c,
                           raw_data_type |-> t.raw_data_type,
                           NUMERIC_PRECISION |-> t.NUMERIC_PRECISION,
                           NUMERIC_SCALE |-> t.NUMERIC_SCALE] :
                          c \in SqlColumnNames, t \in SqlRawTypes }, MaxCols) : DistinctNames(rows) }

\* the results one iteration of the loop of compare_schemas can leave for
\* mapping m: one for each iteration order of the three sets
SchemaIterationOutcomes(results, m, athena_df, sql_df) ==
    LET tr == SchemaTableResult(m)
        athena_cols == AthenaColsOf(athena_df, m)
        sql_cols == SqlColsOf(sql_df, m)
        athena_col_names == FilterIgnored({ athena_cols[i].normalized_name : i \in DOMAIN athena_cols })
        sql_col_names == FilterIgnored({ sql_cols[i].normalized_name : i \in DOMAIN sql_cols })
    IN  IF athena_cols = <<>>
        THEN { SchemaRecorded(results, MissingTable(tr, "Athena", m.athena_table)) }
        ELSE IF sql_cols = <<>>
        THEN { SchemaRecorded(results, MissingTable(tr, "SQL Server", m.sql_table)) }
        ELSE { SchemaRecorded(results,
                   ComparedTable(tr, athena_cols, sql_cols,
                                 common_order, sql_only_order, athena_only_order)) :
               common_order \in Perms(athena_col_names \cap sql_col_names),
               sql_only_order \in Perms(sql_col_names \ athena_col_names),
               athena_only_order \in Perms(athena_col_names \ sql_col_names) }

\* results as compare_schemas creates it
SchemaResultsInit(mappings) ==
    [total_tables |-> Len(mappings), valid_tables |-> 0, error_tables |-> 0, tables |-> <<>>]

\* compare_schemas(mappings) once both catalogs are fetched: the results the
\* loop can return
RECURSIVE CompareSchemasUpTo(_, _, _, _)
CompareSchemasUpTo(mappings, athena_df, sql_df, k) ==
    IF k = 0 THEN { SchemaResultsInit(mappings) }
    ELSE UNION { SchemaIterationOutcomes(r, mappings[k], athena_df, sql_df) :
                 r \in CompareSchemasUpTo(mappings, athena_df, sql_df, k - 1) }

compare_schemas(mappings, athena_df, sql_df) ==
    CompareSchemasUpTo(mappings, athena_df, sql_df, Len(mappings))

InitSchema ==
    /\ sch_mappings = Mappings(1)
    /\ sch_pc = "start"
    /\ sch_athena_df = <<>>
    /\ sch_sql_df = <<>>
    /\ sch_done = 0
    /\ sch_results = <<>>
    /\ sch_rerun = <<>>
    /\ sch_sql_rows = <<>>
    /\ NameIdle
    /\ TypeIdle
    /\ CountIdle
    /\ DataIdle
    /\ KeysIdle
    /\ RunIdle

\* the head of compare_schemas, for the rows a and q the two catalog queries
\* return: both catalogs are fetched and normalized, and results is created.
\* Without mappings no query is sent and an empty frame is returned. When the
\* SQL Server query is sent and returns no row, df.apply(format_sql_type, axis=1)
\* gives back a frame of six columns and its assignment to df['data_type']
\* raises ValueError, which get_sqlserver_columns re-raises and
\* compare_schemas does not catch
FetchCatalogsReturning(a, q) ==
    /\ sch_sql_rows' = q
    /\ IF q = <<>> /\ sch_mappings # <<>>
       THEN /\ sch_pc' = "raised"
            /\ UNCHANGED <<sch_athena_df, sch_sql_df, sch_results>>
       ELSE /\ sch_athena_df' = [i \in 1..Len(a) |-> AthenaColumnsRow(a[i])]
            /\ sch_sql_df' = [i \in 1..Len(q) |-> SqlColumnsRow(q[i])]
            /\ sch_results' = SchemaResultsInit(sch_mappings)
            /\ sch_pc' = "loop"
    /\ UNCHANGED <<sch_mappings, sch_done, sch_rerun>>
    /\ UNCHANGED <<nameVars, typeVars, countVars, dataVars, keyVars, runVars>>

\* the head of compare_schemas for one mapped table and the columns the two
\* catalogs can hold for it
FetchCatalogs ==
    /\ sch_pc = "start"
    /\ \E a \in AthenaCatalogRows(sch_mappings[1].athena_table),
          q \in SqlCatalogRows(Str_dbo, AfterFirstDot(sch_mappings[1].sql_table)) :
          FetchCatalogsReturning(a, q)

\* one iteration of the loop of compare_schemas
CompareSchemasTable ==
    /\ sch_pc = "loop"
    /\ sch_done < Len(sch_mappings)
    /\ sch_results' \in SchemaIterationOutcomes(sch_results, sch_mappings[sch_done + 1],
                                                sch_athena_df, sch_sql_df)
    /\ sch_done' = sch_done + 1
    /\ UNCHANGED <<sch_mappings, sch_pc, sch_athena_df, sch_sql_df, sch_rerun, sch_sql_rows>>
    /\ UNCHANGED <<nameVars, typeVars, countVars, dataVars, keyVars, runVars>>

NextSchema == FetchCatalogs \/ CompareSchemasTable

SpecSchema == InitSchema /\ [][NextSchema]_vars

----------------------------------------------------------------------------
(* Schema check over several mapped tables                                 *)

\* the columns a mapped table has on each side when it is in the catalog,
\* in catalog order
AthenaTableColumns ==
    << [column_name |-> <<"i","d">>, data_type |-> Str_integer],
       [column_name |-> Str_row_version, data_type |-> Str_integer],
       [column_name |-> <<"n","o","t","e">>, data_type |-> Str_string] >>

SqlTableColumns ==
    << [column_name |-> <<"I","D">>, raw_data_type |-> Str_int,
        NUMERIC_PRECISION |-> <<10>>, NUMERIC_SCALE |-> <<0>>],
       [column_name |-> <<"R","o","w"," ","V","e","r","s","i","o","n">>,
        raw_data_type |-> Str_binary, NUMERIC_PRECISION |-> <<>>, NUMERIC_SCALE |-> <<>>],
       [column_name |-> <<"N","o","t","e">>, raw_data_type |-> Str_nvarchar,
        NUMERIC_PRECISION |-> <<>>, NUMERIC_SCALE |-> <<>>] >>

\* the first k of them (all of them when k is larger)
FirstColumns(columns, k) ==
    SubSeq(columns, 1, IF k < Len(columns) THEN k ELSE Len(columns))

\* the rows the Athena catalog holds for a table with k columns (k = 0: the
\* table is not in the catalog)
AthenaRowsOf(m, k) ==
    [c \in 1..Len(FirstColumns(AthenaTableColumns, k)) |->
        [original_name |-> m.athena_table,
         column_name |-> AthenaTableColumns[c].column_name,
         data_type |-> AthenaTableColumns[c].data_type]]

\* the rows the SQL Server query returns for a mapped table with k columns
SqlRowsOf(m, k) ==
    [c \in 1..Len(FirstColumns(SqlTableColumns, k)) |->
        [schema_name |-> BeforeFirstDot(m.sql_table),
         original_name |-> AfterFirstDot(m.sql_table),
         column_name |-> SqlTableColumns[c].column_name,
         raw_data_type |-> SqlTableColumns[c].raw_data_type,
         NUMERIC_PRECISION |-> SqlTableColumns[c].NUMERIC_PRECISION,
         NUMERIC_SCALE |-> SqlTableColumns[c].NUMERIC_SCALE]]

\* a table of the Athena database that no mapping names: the Athena query
\* has no table filter
UnmappedAthenaRows ==
    << [original_name |-> <<"a","u","d","i","t">>, column_name |-> <<"i","d">>,
        data_type |-> Str_integer] >>

InitSchemaTables ==
    /\ sch_mappings \in { Mappings(n) : n \in 0..MaxTables }
    /\ sch_pc = "start"
    /\ sch_athena_df = <<>>
    /\ sch_sql_df = <<>>
    /\ sch_done = 0
    /\ sch_results = <<>>
    /\ sch_rerun = <<>>
    /\ sch_sql_rows = <<>>
    /\ NameIdle
    /\ TypeIdle
    /\ CountIdle
    /\ DataIdle
    /\ KeysIdle
    /\ RunIdle

\* the head of compare_schemas when each mapped table has 0..MaxCols columns
\* in each catalog
FetchTableCatalogs ==
    /\ sch_pc = "start"
    /\ \E a \in [1..Len(sch_mappings) -> 0..MaxCols], q \in [1..Len(sch_mappings) -> 0..MaxCols] :
        FetchCatalogsReturning(
            UnmappedAthenaRows
                \o Flatten([i \in 1..Len(sch_mappings) |-> AthenaRowsOf(sch_mappings[i], a[i])]),
            Flatten([i \in 1..Len(sch_mappings) |-> SqlRowsOf(sch_mappings[i], q[i])]))

NextSchemaTables == FetchTableCatalogs \/ CompareSchemasTable

SpecSchemaTables == InitSchemaTables /\ [][NextSchemaTables]_vars

----------------------------------------------------------------------------
(* The payload fields ReportGenerator reads from the records of the count,  *)
(* duplicate and null checks (report_generator.py 122-175)                  *)

\* table_result[payload][f] succeeds for every f of fields
HasFields(payload, fields) == DOMAIN payload # {} /\ fields \subseteq DOMAIN payload

\* C30: every record the count, duplicate and null checks produce, those of
\* skipped tables and of tables whose fetch raised included, carries the
\* payload fields the report generator reads.
C30_RecordsCarryPayload ==
    /\ ki_kind = "idle" =>
          \A i \in DOMAIN cnt_results.tables :
              HasFields(cnt_results.tables[i].counts,
                        {"status_class", "athena_count", "sql_count", "status"})
    /\ ki_kind = "duplicates" =>
          \A i \in DOMAIN ki_results.tables :
              HasFields(ki_results.tables[i].duplicates,
                        {"status_class", "athena_duplicates", "sql_duplicates"})
    /\ ki_kind = "nulls" =>
          \A i \in DOMAIN ki_results.tables :
              HasFields(ki_results.tables[i].nulls, {"athena_nulls", "sql_nulls"})

----------------------------------------------------------------------------
(* The totals of the four per-table loops: compare_schemas, check_counts,  *)
(* check_duplicates, check_nulls                                           *)

InitLoops == InitCount \/ InitKeys \/ InitSchemaTables

NextLoops == NextCount \/ NextKeys \/ NextSchemaTables

SpecLoops == InitLoops /\ [][NextLoops]_vars

\* the loop that is running: its mappings, the number of iterations it has
\* completed and its results so far
LoopRunning ==
    IF sch_pc = "loop"
    THEN [mappings |-> sch_mappings, done |-> sch_done, results |-> sch_results]
    ELSE IF ki_kind # "idle"
    THEN [mappings |-> ki_mappings, done |-> ki_done, results |-> ki_results]
    ELSE [mappings |-> cnt_mappings, done |-> cnt_done, results |-> cnt_results]

\* between the head of compare_schemas and its loop there are no results yet
InLoop == sch_pc \in {"idle", "loop"}

\* C26: at every iteration boundary of the four loops the two totals add up
\* to the number of records appended; the records follow the mapping order,
\* one per mapping, and at return the totals add up to total_tables.
C26_TotalsAreConsistent ==
    InLoop =>
        LET l == LoopRunning
        IN  /\ Len(l.results.tables) = l.done
            /\ l.results.valid_tables + l.results.error_tables = Len(l.results.tables)
            /\ \A i \in DOMAIN l.results.tables :
                  /\ l.results.tables[i].athena_name = l.mappings[i].athena_table
                  /\ l.results.tables[i].sql_name = l.mappings[i].sql_table
            /\ l.done = Len(l.mappings) =>
                  /\ Len(l.results.tables) = Len(l.mappings)
                  /\ l.results.valid_tables + l.results.error_tables
                        = l.results.total_tables

\* check_nulls returned for two mappings: the first skipped for want of keys,
\* the second without issues
C26_Witness ==
    /\ ki_kind = "nulls"
    /\ Len(ki_mappings) = MaxTables
    /\ ki_done = MaxTables
    /\ ki_mappings[1].primary_keys = <<>>
    /\ ki_results.tables[1].issues = <<SkippedIssue>>
    /\ ~ ki_results.tables[MaxTables].has_issues
    /\ ki_results.valid_tables = 1
    /\ ki_results.error_tables = MaxTables - 1

----------------------------------------------------------------------------
(* Properties of the schema check                                          *)

\* the catalog rows of the i-th mapping's table on each side
AthenaColsAt(i) == AthenaColsOf(sch_athena_df, sch_mappings[i])

SqlColsAt(i) == SqlColsOf(sch_sql_df, sch_mappings[i])

\* the i-th table has a record and is present in both catalogs
ComparedAt(i) ==
    /\ sch_pc = "loop"
    /\ i \in DOMAIN sch_results.tables
    /\ AthenaColsAt(i) # <<>>
    /\ SqlColsAt(i) # <<>>

\* the canonical names of a side that are not always ignored
NonIgnoredNames(rows) == { rows[k].normalized_name : k \in DOMAIN rows } \ IGNORE_COLUMNS

\* the canonical type a side gives a canonical name (its first such column)
TypeOn(rows, c) == FirstRow(rows, c).data_type

\* a matched column's types differ and the declared exception does not cover them
UncoveredTypeMismatch(i, c) ==
    LET ta == TypeOn(AthenaColsAt(i), c)
        ts == TypeOn(SqlColsAt(i), c)
    IN  /\ ta # ts
        /\ ~ (c = Str_row_version /\ ta = Str_integer /\ ts = Str_binary)

\* C4: for a table present in both catalogs, has_issues holds iff the issues
\* list is non-empty, the table is counted in error_tables iff it has issues, and
\* the issues list is non-empty iff a matched column has an uncovered type
\* mismatch or a non-ignored column exists on one side only.
C4_SchemaMismatchIffIssues ==
    \A i \in 1..Len(sch_mappings) :
        ComparedAt(i) =>
            LET tr == sch_results.tables[i]
                A == NonIgnoredNames(AthenaColsAt(i))
                S == NonIgnoredNames(SqlColsAt(i))
            IN  /\ tr.has_issues <=> (tr.issues # <<>>)
                /\ (tr.issues # <<>>) <=>
                      \/ \E c \in A \cap S : UncoveredTypeMismatch(i, c)
                      \/ A # S
                /\ sch_results.error_tables =
                      Cardinality({ k \in DOMAIN sch_results.tables : sch_results.tables[k].has_issues })
                /\ sch_results.valid_tables =
                      Cardinality({ k \in DOMAIN sch_results.tables : ~ sch_results.tables[k].has_issues })
                /\ (A = S /\ \A c \in A : TypeOn(AthenaColsAt(i), c) = TypeOn(SqlColsAt(i), c))
                      => (tr.issues = <<>> /\ ~ tr.has_issues)

\* a table whose two id columns have the types integer and binary has been
\* compared: one issue, flagged, counted as an error table
C4_Witness ==
    /\ ComparedAt(1)
    /\ Len(AthenaColsAt(1)) = 1
    /\ Len(SqlColsAt(1)) = 1
    /\ AthenaColsAt(1)[1].normalized_name = <<"i","d">>
    /\ UncoveredTypeMismatch(1, <<"i","d">>)
    /\ sch_results.tables[1].has_issues
    /\ Len(sch_results.tables[1].issues) = 1
    /\ sch_results.error_tables = 1

\* two column lists with the same canonical names and canonical types
SameColumns(x, y) ==
    /\ Len(x) = Len(y)
    /\ \E p \in Perms(DOMAIN x) :
          \A k \in DOMAIN x : /\ x[k].normalized_name = y[p[k]].normalized_name
                              /\ x[k].data_type = y[p[k]].data_type

\* a list without its j-th row
Without(rows, j) == SubSeq(rows, 1, j - 1) \o SubSeq(rows, j + 1, Len(rows))

\* the rows of long whose removal leaves the columns of short
ExtraColumns(short, long) ==
    { j \in DOMAIN long : Len(long) = Len(short) + 1 /\ SameColumns(short, Without(long, j)) }

\* the extra rows whose canonical name is neither always ignored nor borne by
\* another column of the same side
NewExtraColumns(short, long) ==
    { j \in ExtraColumns(short, long) :
        /\ long[j].normalized_name \notin IGNORE_COLUMNS
        /\ \A k \in DOMAIN long : long[k].normalized_name = long[j].normalized_name => k = j }

\* the column entries of a record that are on one side only
OneSideEntries(tr) ==
    { k \in DOMAIN tr.columns : tr.columns[k].status \in {"Missing in Athena", "Missing in SQL Server"} }

\* C5, as stated: two column sets identical except for one extra column on one
\* side give exactly one only-on-one-side entry and a mismatch.
C5_Original ==
    \A i \in 1..Len(sch_mappings) :
        (/\ ComparedAt(i)
         /\ \/ ExtraColumns(AthenaColsAt(i), SqlColsAt(i)) # {}
            \/ ExtraColumns(SqlColsAt(i), AthenaColsAt(i)) # {})
        => /\ Cardinality(OneSideEntries(sch_results.tables[i])) = 1
           /\ sch_results.tables[i].has_issues

\* C5, amended: when the extra column's canonical name is not in the
\* always-ignore set and is not the canonical name of another column of its
\* side, the result has exactly one only-on-one-side entry, which names that
\* column and the side that lacks it, and the table is a mismatch.
C5_ExtraColumnOneEntry ==
    \A i \in 1..Len(sch_mappings) :
        ComparedAt(i) =>
            LET tr == sch_results.tables[i]
                a == AthenaColsAt(i)
                q == SqlColsAt(i)
            IN  /\ \A j \in NewExtraColumns(a, q) :
                      /\ Cardinality(OneSideEntries(tr)) = 1
                      /\ \A k \in OneSideEntries(tr) :
                            /\ tr.columns[k].status = "Missing in Athena"
                            /\ tr.columns[k].sql_column = q[j].column_name
                      /\ tr.has_issues
                      /\ sch_results.error_tables = 1
                /\ \A j \in NewExtraColumns(q, a) :
                      /\ Cardinality(OneSideEntries(tr)) = 1
                      /\ \A k \in OneSideEntries(tr) :
                            /\ tr.columns[k].status = "Missing in SQL Server"
                            /\ tr.columns[k].athena_column = a[j].column_name
                      /\ tr.has_issues
                      /\ sch_results.error_tables = 1

\* the analytical side has the one extra column id beside a shared row_version
C5_Witness ==
    /\ ComparedAt(1)
    /\ NewExtraColumns(SqlColsAt(1), AthenaColsAt(1)) # {}
    /\ Len(SqlColsAt(1)) = 1
    /\ Cardinality(OneSideEntries(sch_results.tables[1])) = 1
    /\ sch_results.tables[1].has_issues

\* the entries of a record for a canonical name
EntriesFor(tr, c) == { k \in DOMAIN tr.columns : tr.columns[k].normalized_name = c }

\* the type-mismatch issues of a record that name the columns of an entry
TypeIssuesFor(tr, e) ==
    { k \in DOMAIN tr.issues : /\ tr.issues[k].kind = "Type mismatch"
                               /\ tr.issues[k].athena_column = e.athena_column
                               /\ tr.issues[k].sql_column = e.sql_column }

\* C6: a matched column is reported as Match with no issue when its types are
\* equal or it is row_version with the types integer (analytical) and binary
\* (relational); with any other pair of differing types, the swapped pair
\* included, or the declared pair under another name, it is a type mismatch
\* with an issue.
C6_ExceptionExact ==
    \A i \in 1..Len(sch_mappings) :
        ComparedAt(i) =>
            LET tr == sch_results.tables[i]
            IN  \A c \in NonIgnoredNames(AthenaColsAt(i)) \cap NonIgnoredNames(SqlColsAt(i)) :
                    LET ta == TypeOn(AthenaColsAt(i), c)
                        ts == TypeOn(SqlColsAt(i), c)
                    IN  /\ Cardinality(EntriesFor(tr, c)) = 1
                        /\ \A k \in EntriesFor(tr, c) :
                              LET e == tr.columns[k]
                              IN  /\ e.athena_type = ta
                                  /\ e.sql_type = ts
                                  /\ IF ta = ts \/ (c = Str_row_version /\ ta = Str_integer
                                                                         /\ ts = Str_binary)
                                     THEN e.status = "Match" /\ TypeIssuesFor(tr, e) = {}
                                     ELSE e.status = "Type Mismatch" /\ TypeIssuesFor(tr, e) # {}

\* row_version and id both have the types integer and binary: row_version is
\* a Match, id a Type Mismatch
C6_Witness ==
    /\ ComparedAt(1)
    /\ \E k1, k2 \in DOMAIN sch_results.tables[1].columns :
          LET e1 == sch_results.tables[1].columns[k1]
              e2 == sch_results.tables[1].columns[k2]
          IN  /\ e1.normalized_name = Str_row_version
              /\ e1.athena_type = Str_integer /\ e1.sql_type = Str_binary
              /\ e1.status = "Match"
              /\ e2.normalized_name = <<"i","d">>
              /\ e2.athena_type = Str_integer /\ e2.sql_type = Str_binary
              /\ e2.status = "Type Mismatch"
    /\ Len(sch_results.tables[1].issues) = 1

\* the mapped table i is absent from the Athena catalog as fetched
AbsentFromAthena(i) ==
    \A k \in DOMAIN sch_athena_df :
        sch_athena_df[k].normalized_table_name # SchemaNormalizeName(sch_mappings[i].athena_table)

\* the mapped table i is absent from what the SQL Server catalog returned
AbsentFromSql(i) ==
    \A k \in DOMAIN sch_sql_rows :
        ~ /\ SchemaNormalizeName(sch_sql_rows[k].schema_name) = NormSqlSchema(sch_mappings[i].sql_table)
          /\ SchemaNormalizeName(sch_sql_rows[k].original_name) = NormSqlTable(sch_mappings[i].sql_table)

\* the catalogs have been asked for
CatalogsFetched == sch_pc \in {"loop", "raised"}

\* C17: in the schema check a mapped table whose canonical name is absent
\* from one of the catalogs gets an error result with the missing-table
\* issue and no column entry (no column is compared), and the check goes on
\* with the next mapping.
C17_MissingTableIsErrorResult ==
    CatalogsFetched =>
        \A i \in 1..Len(sch_mappings) :
            (AbsentFromSql(i) \/ (sch_pc = "loop" /\ AbsentFromAthena(i))) =>
                /\ sch_pc = "loop"
                /\ sch_done < Len(sch_mappings) => ENABLED CompareSchemasTable
                /\ i <= sch_done =>
                      LET tr == sch_results.tables[i]
                      IN  /\ tr.has_issues
                          /\ Len(tr.issues) = 1
                          /\ tr.issues[1].kind = "Table missing"
                          /\ tr.columns = <<>>
                          /\ Len(sch_results.tables) = sch_done

\* whether a native column name, as an entry or an issue shows it, is one of
\* the always-ignored columns
ShowsIgnored(column) == column # Dash /\ SchemaNormalizeName(column) \in IGNORE_COLUMNS

\* the native column names an issue shows
IssueColumns(issue) ==
    IF issue.kind = "Type mismatch" THEN {issue.athena_column, issue.sql_column}
    ELSE IF issue.kind = "Table missing" THEN {}
    ELSE {issue.column}

\* the rows of a side whose canonical name is always ignored
IgnoredRows(rows) == { k \in DOMAIN rows : rows[k].normalized_name \in IGNORE_COLUMNS }

\* C18: a column whose canonical name is in the always-ignore set is removed
\* from both sides before matching: it is in no column entry and in no
\* issue, whether it exists on the analytical side only, on the relational
\* side only, or on both with different types, and what is reported is what
\* the other columns alone give.
C18_IgnoredColumnsNeverReported ==
    \A i \in 1..Len(sch_mappings) :
        ComparedAt(i) =>
            LET tr == sch_results.tables[i]
                A == NonIgnoredNames(AthenaColsAt(i))
                S == NonIgnoredNames(SqlColsAt(i))
            IN  /\ \A k \in DOMAIN tr.columns :
                      /\ tr.columns[k].normalized_name \notin IGNORE_COLUMNS
                      /\ ~ ShowsIgnored(tr.columns[k].athena_column)
                      /\ ~ ShowsIgnored(tr.columns[k].sql_column)
                /\ \A k \in DOMAIN tr.issues :
                      \A column \in IssueColumns(tr.issues[k]) : ~ ShowsIgnored(column)
                /\ { tr.columns[k].normalized_name : k \in DOMAIN tr.columns } = A \cup S
                /\ (A = {} /\ S = {}) => (tr.columns = <<>> /\ ~ tr.has_issues)

\* a compared table where country_code is on both sides with different
\* types beside a matching id, and nothing is reported but the id entry
C18_Witness ==
    /\ ComparedAt(1)
    /\ \E k \in IgnoredRows(AthenaColsAt(1)), l \in IgnoredRows(SqlColsAt(1)) :
          /\ AthenaColsAt(1)[k].normalized_name = SqlColsAt(1)[l].normalized_name
          /\ AthenaColsAt(1)[k].data_type # SqlColsAt(1)[l].data_type
    /\ Len(sch_results.tables[1].columns) = 1
    /\ sch_results.tables[1].columns[1].status = "Match"
    /\ sch_results.tables[1].issues = <<>>

\* a compared table where only the analytical side has an ignored column
C18_WitnessAthenaOnly ==
    /\ ComparedAt(1)
    /\ IgnoredRows(AthenaColsAt(1)) # {}
    /\ IgnoredRows(SqlColsAt(1)) = {}

\* a compared table where only the relational side has an ignored column
C18_WitnessSqlOnly ==
    /\ ComparedAt(1)
    /\ IgnoredRows(AthenaColsAt(1)) = {}
    /\ IgnoredRows(SqlColsAt(1)) # {}

\* C19: every canonical column name of a compared table is in exactly one
\* column entry, with the one status its side membership gives: matched or
\* type-mismatched when both sides have it, missing on the side that lacks
\* it otherwise; also when several native columns of a side share the
\* canonical name.
C19_OneEntryPerCanonicalName ==
    \A i \in 1..Len(sch_mappings) :
        ComparedAt(i) =>
            LET tr == sch_results.tables[i]
                A == NonIgnoredNames(AthenaColsAt(i))
                S == NonIgnoredNames(SqlColsAt(i))
            IN  /\ Len(tr.columns) = Cardinality(A \cup S)
                /\ \A c \in A \cup S :
                      /\ Cardinality(EntriesFor(tr, c)) = 1
                      /\ \A k \in EntriesFor(tr, c) :
                            /\ c \in A \cap S <=> tr.columns[k].status \in {"Match", "Type Mismatch"}
                            /\ c \in S \ A <=> tr.columns[k].status = "Missing in Athena"
                            /\ c \in A \ S <=> tr.columns[k].status = "Missing in SQL Server"

\* a compared table whose relational side has two native columns of the
\* canonical name row_version, which the analytical side has too, beside an
\* analytical-only id: two entries
C19_Witness ==
    /\ ComparedAt(1)
    /\ Len(SqlColsAt(1)) = 2
    /\ SqlColsAt(1)[1].normalized_name = Str_row_version
    /\ SqlColsAt(1)[2].normalized_name = Str_row_version
    /\ Str_row_version \in NonIgnoredNames(AthenaColsAt(1))
    /\ <<"i","d">> \in NonIgnoredNames(AthenaColsAt(1))
    /\ Len(sch_results.tables[1].columns) = 2

\* C29: for a table present on both sides, every native column of either
\* side whose canonical name is not always ignored is named in a column
\* entry of the record, also when two native columns of a side share a
\* canonical name.
C29_EveryNativeColumnNamed ==
    \A i \in 1..Len(sch_mappings) :
        ComparedAt(i) =>
            LET tr == sch_results.tables[i]
            IN  /\ \A k \in DOMAIN AthenaColsAt(i) :
                      AthenaColsAt(i)[k].normalized_name \notin IGNORE_COLUMNS =>
                          \E e \in DOMAIN tr.columns :
                              tr.columns[e].athena_column = AthenaColsAt(i)[k].column_name
                /\ \A k \in DOMAIN SqlColsAt(i) :
                      SqlColsAt(i)[k].normalized_name \notin IGNORE_COLUMNS =>
                          \E e \in DOMAIN tr.columns :
                              tr.columns[e].sql_column = SqlColsAt(i)[k].column_name

----------------------------------------------------------------------------
(* Schema check executed twice on the same input                           *)

\* a second execution of compare_schemas on the same mappings and the same
\* catalogs, in another run of the program. The three column-name sets are
\* Python sets of str, whose iteration order follows the string hashes, and
\* these are salted anew for every interpreter process: each execution
\* iterates each set in some order of its own
CompareSchemasAgain ==
    /\ sch_pc = "loop"
    /\ sch_done = Len(sch_mappings)
    /\ sch_rerun' \in compare_schemas(sch_mappings, sch_athena_df, sch_sql_df)
    /\ sch_pc' = "rerun"
    /\ UNCHANGED <<sch_mappings, sch_athena_df, sch_sql_df, sch_done, sch_results, sch_sql_rows>>
    /\ UNCHANGED <<nameVars, typeVars, countVars, dataVars, keyVars, runVars>>

NextSchemaTwice == FetchCatalogs \/ CompareSchemasTable \/ CompareSchemasAgain

SpecSchemaTwice == InitSchema /\ [][NextSchemaTwice]_vars

\* C20: schema reconciliation is deterministic: the same mapping and the
\* same catalogs give the same table result, with the column entries and the
\* issues in the same order.
C20_SameInputSameResult ==
    sch_pc = "rerun" => sch_rerun = sch_results

----------------------------------------------------------------------------
(* Sample (data) comparison                                                *)

\* the characters of the sampled values, in the order of their code points
CodePointOrder == <<" ", "-", ".", "0", "1", "2", "3", "4", "5", "6", "7", "8", "9", ":",
                    "L", "N", "U", "a", "e", "n", "o">>

CodePoint(c) == CHOOSE i \in DOMAIN CodePointOrder : CodePointOrder[i] = c

\* a < b for two str values
RECURSIVE StrLess(_, _)
StrLess(a, b) ==
    IF b = <<>> THEN FALSE
    ELSE IF a = <<>> THEN TRUE
    ELSE IF a[1] = b[1] THEN StrLess(Tail(a), Tail(b))
    ELSE CodePoint(a[1]) < CodePoint(b[1])

Str_NULL == <<"N","U","L","L">>

Str_None == <<"N","o","n","e">>

Str_nan == <<"n","a","n">>

\* a cell as the driver returns it: None, or a str
NoneCell == [is_none |-> TRUE, text |-> <<>>]

StrCell(t) == [is_none |-> FALSE, text |-> t]

\* astype(str) of a cell
AsStr(cell) == IF cell.is_none THEN Str_None ELSE cell.text

\* a standardization whose replacement list lacks 'None'
StandardizeKeepingNone(cell) ==
    LET v == Strip(AsStr(cell))
    IN  IF v \in {Str_nan, <<>>} THEN Str_NULL ELSE v

\* df[col].astype(str).str.strip().replace(['nan', 'None', ''], 'NULL'), for one cell
Standardize(cell) ==
    LET v == Strip(AsStr(cell))
    IN  IF v \in {Str_nan, Str_None, <<>>} THEN Str_NULL ELSE v

\* the standardization loop over df.columns, for one row
StandardizeRow(row) == [c \in DOMAIN row |-> Standardize(row[c])]

\* the value of a digit character
DigitVal(c) == (CHOOSE i \in DOMAIN DigitChars : DigitChars[i] = c) - 1

IsDigits(t) == \A i \in DOMAIN t : t[i] \in Range(DigitChars)

\* the number a string of digits writes
RECURSIVE DigitsVal(_)
DigitsVal(t) ==
    IF t = <<>> THEN 0 ELSE 10 * DigitsVal(SubSeq(t, 1, Len(t) - 1)) + DigitVal(t[Len(t)])

RECURSIVE Pow10(_)
Pow10(k) == IF k = 0 THEN 1 ELSE 10 * Pow10(k - 1)

\* float(v) if '.' in v else int(v): <<>> for a ValueError, else the number as
\* <<n, k>>, meaning n / 10^k (plain decimal notation; an exponent, an
\* underscore or inf/nan do not occur among the sampled values)
ParseNumber(v) ==
    LET signed == v # <<>> /\ v[1] \in {"-", "+"}
        body == IF signed THEN Tail(v) ELSE v
        sign == IF signed /\ v[1] = "-" THEN -1 ELSE 1
        dots == { i \in DOMAIN body : body[i] = "." }
    IN  IF "." \in Range(v)
        THEN IF Cardinality(dots) = 1 /\ Len(body) >= 2
                /\ IsDigits(SelectSeq(body, LAMBDA c : c # "."))
             THEN LET d == CHOOSE i \in dots : TRUE
                  IN  << <<sign * DigitsVal(SelectSeq(body, LAMBDA c : c # ".")), Len(body) - d>> >>
             ELSE <<>>
        ELSE IF body # <<>> /\ IsDigits(body)
             THEN << <<sign * DigitsVal(body), 0>> >>
             ELSE <<>>

\* a value loop without the numeric tolerance
NumericallyEqualNever(ath_val, sql_val) == FALSE

\* the first try block of the value loop: both values parse and
\* abs(ath_num - sql_num) < 1e-9 (for numbers of few fraction digits: equality)
NumericallyEqual(ath_val, sql_val) ==
    LET a == ParseNumber(ath_val)
        b == ParseNumber(sql_val)
    IN  /\ a # <<>>
        /\ b # <<>>
        /\ a[1][1] * Pow10(b[1][2]) = b[1][1] * Pow10(a[1][2])

\* datetime.strptime(v, '%Y-%m-%d %H:%M:%S') and, with fraction, '...%S.%f':
\* <<>> for a ValueError, else <<year, month, day, hour, minute, second,
\* microsecond>> (fields of full width, as the drivers write them)
ParseDateTime(v, fraction) ==
    LET digitsAt == {1, 2, 3, 4, 6, 7, 9, 10, 12, 13, 15, 16, 18, 19}
        shape == /\ Len(v) >= 19
                 /\ v[5] = "-" /\ v[8] = "-" /\ v[11] = " " /\ v[14] = ":" /\ v[17] = ":"
                 /\ \A i \in digitsAt : v[i] \in Range(DigitChars)
                 /\ IF fraction
                    THEN /\ Len(v) >= 21 /\ Len(v) <= 26
                         /\ v[20] = "."
                         /\ IsDigits(SubSeq(v, 21, Len(v)))
                    ELSE Len(v) = 19
    IN  IF ~ shape THEN <<>>
        ELSE LET month == DigitsVal(SubSeq(v, 6, 7))
                 day == DigitsVal(SubSeq(v, 9, 10))
                 hour == DigitsVal(SubSeq(v, 12, 13))
                 minute == DigitsVal(SubSeq(v, 15, 16))
                 second == DigitsVal(SubSeq(v, 18, 19))
                 micro == IF fraction
                          THEN DigitsVal(SubSeq(v, 21, Len(v))) * Pow10(26 - Len(v))
                          ELSE 0
             IN  IF month \in 1..12 /\ day \in 1..31 /\ hour \in 0..23
                    /\ minute \in 0..59 /\ second \in 0..61
                 THEN << <<DigitsVal(SubSeq(v, 1, 4)), month, day, hour, minute, second, micro>> >>
                 ELSE <<>>

\* the second try block of the value loop: the Athena value parses without a
\* fraction, the SQL Server value with one, and the two datetimes are equal
SameDateTime(ath_val, sql_val) ==
    LET a == ParseDateTime(ath_val, FALSE)
        b == ParseDateTime(sql_val, TRUE)
    IN  a # <<>> /\ b # <<>> /\ a[1] = b[1]

\* whether the value loop appends an entry for the two values
ValueMismatch(ath_val, sql_val) ==
    /\ ath_val # sql_val
    /\ ~ NumericallyEqual(ath_val, sql_val)
    /\ ~ SameDateTime(ath_val, sql_val)

\* config primary_keys of the sampled table
primary_keys == <<"id">>

\* row r's key sorts before row q's key
RECURSIVE KeyLess(_, _, _)
KeyLess(r, q, keys) ==
    IF keys = <<>> THEN FALSE
    ELSE IF r[keys[1]] = q[keys[1]] THEN KeyLess(r, q, Tail(keys))
    ELSE StrLess(r[keys[1]], q[keys[1]])

\* df.sort_values(keys).reset_index(drop=True); rows of equal key keep their order
RECURSIVE SortValues(_, _)
SortValues(rows, keys) ==
    IF rows = <<>> THEN <<>>
    ELSE LET sorted == SortValues(SubSeq(rows, 1, Len(rows) - 1), keys)
             r == rows[Len(rows)]
             k == Cardinality({ i \in DOMAIN sorted : ~ KeyLess(r, sorted[i], keys) })
         IN  SubSeq(sorted, 1, k) \o <<r>> \o SubSeq(sorted, k + 1, Len(sorted))

\* a row-count report of one issue per source
RowCountIssuePerSide(athena_df, sql_df) ==
    << [issue_type |-> "row_count_mismatch", message |-> [athena |-> Len(athena_df), sql |-> 0]],
       [issue_type |-> "row_count_mismatch", message |-> [athena |-> 0, sql |-> Len(sql_df)]] >>

\* the list compare_dataframes returns when the row counts differ; the
\* message is kept as the two numbers it prints
RowCountIssue(athena_df, sql_df) ==
    << [issue_type |-> "row_count_mismatch",
        message |-> [athena |-> Len(athena_df), sql |-> Len(sql_df)]] >>

\* the entries of the primary-key loop, row by row and key by key
PrimaryKeyMismatches(a, q, keys) ==
    Flatten([idx \in 1..Len(a) |->
        Flatten([k \in 1..Len(keys) |->
            IF a[idx][keys[k]] # q[idx][keys[k]]
            THEN << [row |-> idx, column |-> keys[k], issue_type |-> "primary_key_mismatch",
                     athena_value |-> a[idx][keys[k]], sql_value |-> q[idx][keys[k]]] >>
            ELSE <<>>])])

\* the entries of the value loop, column pair by column pair and row by row
ValueMismatches(a, q, athena_cols, sql_cols) ==
    Flatten([c \in 1..(IF Len(athena_cols) < Len(sql_cols) THEN Len(athena_cols) ELSE Len(sql_cols)) |->
        Flatten([idx \in 1..Len(a) |->
            IF ValueMismatch(a[idx][athena_cols[c]], q[idx][sql_cols[c]])
            THEN << [row |-> idx, column |-> athena_cols[c], issue_type |-> "value_mismatch",
                     athena_value |-> a[idx][athena_cols[c]],
                     sql_value |-> q[idx][sql_cols[c]]] >>
            ELSE <<>>])])

\* DataComparator.compare_dataframes
compare_dataframes(athena_df, sql_df, athena_cols, sql_cols, keys) ==
    IF Len(athena_df) # Len(sql_df)
    THEN RowCountIssue(athena_df, sql_df)
    ELSE LET a == SortValues(athena_df, keys)
             q == SortValues(sql_df, keys)
         IN  PrimaryKeyMismatches(a, q, keys) \o ValueMismatches(a, q, athena_cols, sql_cols)

SampleTimestamp == <<"2","0","2","0","-","0","1","-","0","2"," ","0","3",":","0","4",":","0","5">>

SampleTimestampMs == <<"2","0","2","0","-","0","1","-","0","2"," ","0","3",":","0","4",":","0","5",".","0","0","0">>

\* the values a sampled non-key cell holds
RawValues == { NoneCell, StrCell(Str_nan), StrCell(Str_None), StrCell(<<>>),
               StrCell(<<" ">> \o Str_None \o <<" ">>),
               StrCell(<<" ", "1">>), StrCell(<<"1", ".", "0">>), StrCell(<<"2">>),
               StrCell(SampleTimestamp), StrCell(SampleTimestampMs) }

\* the values a sampled key cell holds, in the order of the sources' ORDER BY
RawKeys == << StrCell(<<"2">>), StrCell(<<"1", "0">>) >>

\* the samples a query returns: at most MaxRows rows, ordered by the key
OrderedByKey(rows) ==
    \A i, j \in DOMAIN rows :
        i < j => \E m, n \in DOMAIN RawKeys : m <= n /\ rows[i].id = RawKeys[m] /\ rows[j].id = RawKeys[n]

AthenaSamples ==
    { rows \in SeqsUpTo([id : Range(RawKeys), v : RawValues], MaxRows) : OrderedByKey(rows) }

SqlSamples ==
    { rows \in SeqsUpTo([id : Range(RawKeys), V : RawValues], MaxRows) : OrderedByKey(rows) }

\* the column lists compare_data builds from common_cols: the key column is
\* among them unless the mapping excludes it
SelectedColumns == { [athena_cols |-> <<"v">>, sql_cols |-> <<"V">>],
                     [athena_cols |-> <<"id", "v">>, sql_cols |-> <<"id", "V">>] }

InitData ==
    /\ dc_pc = "start"
    /\ dc_raw_athena \in AthenaSamples
    /\ dc_raw_sql \in SqlSamples
    /\ dc_athena_df = <<>>
    /\ dc_sql_df = <<>>
    /\ dc_cols = <<>>
    /\ dc_mismatches = <<>>
    /\ dc_status = "pending"
    /\ dc_summary = <<>>
    /\ dc_table = [primary_keys |-> primary_keys, in_athena |-> TRUE, in_sql |-> TRUE,
                   common_cols |-> TRUE]
    /\ dc_issues = <<>>
    /\ NameIdle
    /\ TypeIdle
    /\ CountIdle
    /\ SchemaIdle
    /\ KeysIdle
    /\ RunIdle

\* get_athena_data and get_sqlserver_data: each standardizes the rows its
\* query returned
FetchData ==
    /\ dc_pc = "start"
    /\ dc_athena_df' = [i \in 1..Len(dc_raw_athena) |-> StandardizeRow(dc_raw_athena[i])]
    /\ dc_sql_df' = [i \in 1..Len(dc_raw_sql) |-> StandardizeRow(dc_raw_sql[i])]
    /\ dc_pc' = "fetched"
    /\ UNCHANGED <<dc_raw_athena, dc_raw_sql, dc_cols, dc_mismatches, dc_status, dc_summary,
                   dc_table, dc_issues>>
    /\ UNCHANGED <<nameVars, typeVars, countVars, schemaVars, keyVars, runVars>>

\* the comparison step of compare_data: compare_dataframes and the status it decides
CompareData ==
    /\ dc_pc = "fetched"
    /\ \E cols \in SelectedColumns :
          LET mismatches == compare_dataframes(dc_athena_df, dc_sql_df,
                                               cols.athena_cols, cols.sql_cols, primary_keys)
          IN  /\ dc_cols' = cols
              /\ dc_mismatches' = mismatches
              /\ dc_status' = IF mismatches # <<>> THEN "mismatch" ELSE "match"
              /\ dc_issues' = IF mismatches # <<>>
                              THEN Append(dc_issues, [kind |-> "Found mismatches",
                                                      count |-> Len(mismatches)])
                              ELSE dc_issues
    /\ dc_pc' = "compared"
    /\ UNCHANGED <<dc_raw_athena, dc_raw_sql, dc_athena_df, dc_sql_df, dc_summary, dc_table>>
    /\ UNCHANGED <<nameVars, typeVars, countVars, schemaVars, keyVars, runVars>>

NextData == FetchData \/ CompareData

SpecData == InitData /\ [][NextData]_vars

\* the 'column' of every mismatch entry, in list order; an entry without the
\* key makes the lookup raise KeyError
HasColumn(mismatch) == "column" \in DOMAIN mismatch

MismatchColumns(mismatches) == [i \in DOMAIN mismatches |-> mismatches[i].column]

\* the keys of a Counter in insertion order
RECURSIVE CounterKeys(_)
CounterKeys(seq) ==
    IF seq = <<>> THEN <<>>
    ELSE LET rest == CounterKeys(SubSeq(seq, 1, Len(seq) - 1))
             x == seq[Len(seq)]
         IN  IF x \in Range(rest) THEN rest ELSE Append(rest, x)

\* Counter.most_common: by count, highest first, equal counts in insertion order
InsertByCount(sorted, e) ==
    LET k == Cardinality({ i \in DOMAIN sorted : sorted[i].count >= e.count })
    IN  SubSeq(sorted, 1, k) \o <<e>> \o SubSeq(sorted, k + 1, Len(sorted))

RECURSIVE MostCommonUpTo(_, _, _)
MostCommonUpTo(seq, keys, k) ==
    IF k = 0 THEN <<>>
    ELSE InsertByCount(MostCommonUpTo(seq, keys, k - 1),
                       [column |-> keys[k],
                        count |-> Cardinality({ i \in DOMAIN seq : seq[i] = keys[k] })])

most_common(seq, n) ==
    LET all == MostCommonUpTo(seq, CounterKeys(seq), Len(CounterKeys(seq)))
    IN  SubSeq(all, 1, IF Len(all) < n THEN Len(all) ELSE n)

\* _get_common_mismatch_columns over the mismatches of the compared table
\* (called only when every entry has a 'column')
get_common_mismatch_columns(mismatches) == most_common(MismatchColumns(mismatches), 5)

\* the end of compare_data for a configuration of one table: the summary is
\* built after the loop, outside the loop's try, and a KeyError raised by
\* _get_common_mismatch_columns leaves compare_data
SummarizeData ==
    /\ dc_pc = "compared"
    /\ IF \A i \in DOMAIN dc_mismatches : HasColumn(dc_mismatches[i])
       THEN /\ dc_summary' = [match_percentage |-> IF dc_status = "match" THEN 100 ELSE 0,
                              total_mismatches |-> Len(dc_mismatches),
                              most_common_mismatch_columns |->
                                  get_common_mismatch_columns(dc_mismatches)]
            /\ dc_pc' = "returned"
       ELSE /\ dc_summary' = [raised |-> "KeyError: 'column'"]
            /\ dc_pc' = "raised"
    /\ UNCHANGED <<dc_raw_athena, dc_raw_sql, dc_athena_df, dc_sql_df, dc_cols,
                   dc_mismatches, dc_status, dc_table, dc_issues>>
    /\ UNCHANGED <<nameVars, typeVars, countVars, schemaVars, keyVars, runVars>>

NextDataRun == FetchData \/ CompareData \/ SummarizeData

SpecDataRun == InitData /\ [][NextDataRun]_vars

\* the primary_keys a mapping of the configuration file can give a table
ConfiguredKeys == { <<>>, <<"id">>, <<"id", "ID">> }

\* the mapping's keys and the facts the validations of compare_data look at
TableFacts ==
    [primary_keys : ConfiguredKeys, in_athena : BOOLEAN, in_sql : BOOLEAN, common_cols : BOOLEAN]

\* the characters of a column name of the samples
ColumnChars(name) ==
    IF name = "id" THEN <<"i", "d">>
    ELSE IF name = "ID" THEN <<"I", "D">>
    ELSE IF name = "V" THEN <<"V">>
    ELSE <<"v">>

\* norm_pks has a name twice
DuplicateKeys(keys) ==
    \E i, j \in DOMAIN keys :
        i # j /\ DataNormalizeName(ColumnChars(keys[i])) = DataNormalizeName(ColumnChars(keys[j]))

\* the ValueError the validations of compare_data raise for a table, or
\* <<>> when they pass
TableValidationError(table) ==
    IF ~ table.in_athena THEN <<[kind |-> "Table not found in Athena"]>>
    ELSE IF ~ table.in_sql THEN <<[kind |-> "Table not found in SQL Server"]>>
    ELSE IF ~ table.common_cols THEN <<[kind |-> "No common columns after exclusions"]>>
    ELSE IF table.primary_keys = <<>> THEN <<[kind |-> "No primary keys specified"]>>
    ELSE IF DuplicateKeys(table.primary_keys) THEN <<[kind |-> "Duplicate primary keys"]>>
    ELSE <<>>

InitDataTable ==
    /\ dc_pc = "table"
    /\ dc_table \in TableFacts
    /\ dc_raw_athena \in { rows \in AthenaSamples : Len(rows) <= 1 }
    /\ dc_raw_sql \in { rows \in SqlSamples : Len(rows) <= 1 }
    /\ dc_athena_df = <<>>
    /\ dc_sql_df = <<>>
    /\ dc_cols = <<>>
    /\ dc_mismatches = <<>>
    /\ dc_status = "pending"
    /\ dc_summary = <<>>
    /\ dc_issues = <<>>
    /\ NameIdle
    /\ TypeIdle
    /\ CountIdle
    /\ SchemaIdle
    /\ KeysIdle
    /\ RunIdle

\* the loop body of compare_data up to the fetches: a validation that fails
\* raises ValueError, and the except of the loop body makes the table an
\* error result carrying the message
ValidateTable ==
    /\ dc_pc = "table"
    /\ IF TableValidationError(dc_table) # <<>>
       THEN /\ dc_status' = "error"
            /\ dc_issues' = dc_issues \o TableValidationError(dc_table)
            /\ dc_pc' = "errored"
       ELSE /\ dc_pc' = "start"
            /\ UNCHANGED <<dc_status, dc_issues>>
    /\ UNCHANGED <<dc_raw_athena, dc_raw_sql, dc_athena_df, dc_sql_df, dc_cols,
                   dc_mismatches, dc_summary, dc_table>>
    /\ UNCHANGED <<nameVars, typeVars, countVars, schemaVars, keyVars, runVars>>

NextDataTable == ValidateTable \/ FetchData \/ CompareData

SpecDataTable == InitDataTable /\ [][NextDataTable]_vars

----------------------------------------------------------------------------
(* Properties of the sample comparison                                     *)

DataCompared == dc_pc = "compared"

SameRowCount == Len(dc_athena_df) = Len(dc_sql_df)

\* the two samples as compare_dataframes aligns them
SortedAthena == SortValues(dc_athena_df, primary_keys)

SortedSql == SortValues(dc_sql_df, primary_keys)

ColumnPairs ==
    { <<dc_cols.athena_cols[c], dc_cols.sql_cols[c]>> : c \in DOMAIN dc_cols.athena_cols }

\* the entries of a kind in kinds reported for a row and a column
EntriesAt(kinds, row, column) ==
    { i \in DOMAIN dc_mismatches :
        /\ dc_mismatches[i].issue_type \in kinds
        /\ dc_mismatches[i].row = row
        /\ dc_mismatches[i].column = column }

AllKinds == {"primary_key_mismatch", "value_mismatch"}

\* the pairs of sampled values that the comparison takes for one value
\* although their strings differ: the same number, and the same timestamp
\* written without a fraction on the Athena side and with one on the other
SameNumber(a, q) == {a, q} = {<<"1">>, <<"1", ".", "0">>}

SameTimestamp(a, q) == a = SampleTimestamp /\ q = SampleTimestampMs

Equivalent(a, q) == a = q \/ SameNumber(a, q) \/ SameTimestamp(a, q)

ExpectedValueEntries ==
    { <<idx, p[1]>> : idx \in DOMAIN SortedAthena, p \in ColumnPairs } \cap
    { e \in (DOMAIN SortedAthena) \X {"id", "v"} :
        \E p \in ColumnPairs :
            p[1] = e[2] /\ ~ Equivalent(SortedAthena[e[1]][p[1]], SortedSql[e[1]][p[2]]) }

ExpectedKeyEntries ==
    { e \in (DOMAIN SortedAthena) \X Range(primary_keys) :
        SortedAthena[e[1]][e[2]] # SortedSql[e[1]][e[2]] }

\* the non-key cells in which the two samples, row by row as fetched, differ
ChangedCells == { i \in DOMAIN dc_athena_df : dc_athena_df[i].v # dc_sql_df[i].V }

SameKeys == \A i \in DOMAIN dc_athena_df : dc_athena_df[i].id = dc_sql_df[i].id

\* C1 as stated: exactly one entry for every (row, compared column) pair
\* whose normalized strings differ, and no other entry.
C1_Original ==
    (DataCompared /\ SameRowCount) =>
        /\ \A idx \in DOMAIN SortedAthena : \A p \in ColumnPairs :
              Cardinality(EntriesAt(AllKinds, idx, p[1])) =
                  IF SortedAthena[idx][p[1]] # SortedSql[idx][p[2]] THEN 1 ELSE 0
        /\ Len(dc_mismatches) =
              Cardinality({ e \in (DOMAIN SortedAthena) \X ColumnPairs :
                              SortedAthena[e[1]][e[2][1]] # SortedSql[e[1]][e[2][2]] })

\* C1, amended: for samples of equal row count, paired by position after each
\* is sorted by the primary key, the mismatch list holds exactly one
\* value_mismatch entry for every (row, compared column) pair whose normalized
\* strings differ and are neither the same number nor the same timestamp, one
\* primary_key_mismatch entry for every key cell whose strings differ, and no
\* other entry; every entry names the 1-based row position, the Athena column
\* name and the two values.  Samples identical after normalization give status
\* match with no entry, and one changed non-key cell gives exactly one entry.
C1_MismatchPerDifferingCell ==
    (DataCompared /\ SameRowCount) =>
        /\ \A idx \in DOMAIN SortedAthena : \A p \in ColumnPairs :
              Cardinality(EntriesAt({"value_mismatch"}, idx, p[1])) =
                  IF <<idx, p[1]>> \in ExpectedValueEntries THEN 1 ELSE 0
        /\ \A idx \in DOMAIN SortedAthena : \A k \in Range(primary_keys) :
              Cardinality(EntriesAt({"primary_key_mismatch"}, idx, k)) =
                  IF <<idx, k>> \in ExpectedKeyEntries THEN 1 ELSE 0
        /\ Len(dc_mismatches) = Cardinality(ExpectedValueEntries) + Cardinality(ExpectedKeyEntries)
        /\ \A i \in DOMAIN dc_mismatches :
              LET e == dc_mismatches[i]
              IN  /\ e.row \in DOMAIN SortedAthena
                  /\ e.athena_value = SortedAthena[e.row][e.column]
                  /\ \E p \in ColumnPairs \cup {<<"id", "id">>} :
                        p[1] = e.column /\ e.sql_value = SortedSql[e.row][p[2]]
        /\ dc_status = (IF dc_mismatches = <<>> THEN "match" ELSE "mismatch")
        /\ (SameKeys /\ ChangedCells = {}) => (dc_mismatches = <<>> /\ dc_status = "match")
        /\ \A i \in DOMAIN dc_athena_df :
              (SameKeys /\ ChangedCells = {i} /\ ~ Equivalent(dc_athena_df[i].v, dc_sql_df[i].V)) =>
                  /\ Len(dc_mismatches) = 1
                  /\ dc_mismatches[1].issue_type = "value_mismatch"
                  /\ dc_mismatches[1].column = "v"
                  /\ dc_mismatches[1].athena_value = dc_athena_df[i].v
                  /\ dc_mismatches[1].sql_value = dc_sql_df[i].V

\* two rows each, fetched in an order the sort changes, one non-key cell
\* changed on the SQL Server side, and the one entry that reports it
C1_Witness ==
    /\ DataCompared
    /\ Len(dc_athena_df) = 2
    /\ Len(dc_sql_df) = 2
    /\ SortedAthena # dc_athena_df
    /\ SameKeys
    /\ Cardinality(ChangedCells) = 1
    /\ Len(dc_mismatches) = 1
    /\ dc_mismatches[1].issue_type = "value_mismatch"
    /\ dc_status = "mismatch"

\* C2: when the two fetched samples differ in row count, compare_dataframes
\* returns exactly one issue, of kind row_count_mismatch, naming the two
\* counts, and no primary-key or value entry.
C2_RowCountShortCircuit ==
    (DataCompared /\ ~ SameRowCount) =>
        /\ Len(dc_mismatches) = 1
        /\ dc_mismatches[1].issue_type = "row_count_mismatch"
        /\ dc_mismatches[1].message = [athena |-> Len(dc_athena_df), sql |-> Len(dc_sql_df)]
        /\ \A i \in DOMAIN dc_mismatches : dc_mismatches[i].issue_type \notin AllKinds
        /\ dc_status = "mismatch"

\* two Athena rows against one SQL Server row whose key and value both differ
\* from the first Athena row's
C2_Witness ==
    /\ DataCompared
    /\ Len(dc_athena_df) = 2
    /\ Len(dc_sql_df) = 1
    /\ dc_athena_df[1].id # dc_sql_df[1].id
    /\ dc_athena_df[1].v # dc_sql_df[1].V
    /\ Len(dc_mismatches) = 1
    /\ dc_mismatches[1].issue_type = "row_count_mismatch"

\* the null-like tokens: None, 'nan', 'None' and '' once converted and trimmed
NullTokenCells ==
    { cell \in RawValues : cell.is_none \/ Strip(cell.text) \in {Str_nan, Str_None, <<>>} }

\* the fetched rows next to their standardized keys, to align them as
\* compare_dataframes aligns the standardized rows
WithRaw(raw) == [i \in DOMAIN raw |-> [id |-> Standardize(raw[i].id), raw |-> raw[i]]]

RawSortedAthena == SortValues(WithRaw(dc_raw_athena), primary_keys)

RawSortedSql == SortValues(WithRaw(dc_raw_sql), primary_keys)

\* C3: every null-like token is standardized to NULL on both sources, and a
\* cell holding one null-like token on the Athena side and any null-like token
\* on the SQL Server side gets no mismatch entry.
C3_NullTokensEqual ==
    /\ dc_pc \in {"fetched", "compared"} =>
          /\ \A i \in DOMAIN dc_raw_athena : \A c \in DOMAIN dc_raw_athena[i] :
                dc_raw_athena[i][c] \in NullTokenCells => dc_athena_df[i][c] = Str_NULL
          /\ \A i \in DOMAIN dc_raw_sql : \A c \in DOMAIN dc_raw_sql[i] :
                dc_raw_sql[i][c] \in NullTokenCells => dc_sql_df[i][c] = Str_NULL
    /\ (DataCompared /\ SameRowCount) =>
          \A idx \in DOMAIN RawSortedAthena : \A p \in ColumnPairs :
              ( /\ RawSortedAthena[idx].raw[p[1]] \in NullTokenCells
                /\ RawSortedSql[idx].raw[p[2]] \in NullTokenCells )
              => EntriesAt(AllKinds, idx, p[1]) = {}

\* None on the Athena side against the text 'nan' on the SQL Server side, in
\* the second row after sorting, and a comparison that reports nothing
C3_Witness ==
    /\ DataCompared
    /\ Len(dc_raw_athena) = 2
    /\ Len(dc_raw_sql) = 2
    /\ RawSortedAthena[2].raw.v = NoneCell
    /\ RawSortedSql[2].raw.V = StrCell(Str_nan)
    /\ RawSortedAthena[1].raw.v = StrCell(<<>>)
    /\ RawSortedSql[1].raw.V = StrCell(<<" ">> \o Str_None \o <<" ">>)
    /\ dc_mismatches = <<>>
    /\ dc_status = "match"


\* compare_data has ended for the table, by returning or by raising
DataEnded == dc_pc \in {"returned", "raised"}

\* C16: a row-count difference between the two samples is reported as the
\* mismatch of that one table and never as a failure of the engine: the data
\* check still returns its run-level result, summary of the most frequently
\* mismatching columns included.
C16_RowCountMismatchKeepsEngine ==
    (DataEnded /\ Len(dc_athena_df) # Len(dc_sql_df)) =>
        /\ dc_status = "mismatch"
        /\ dc_pc = "returned"
        /\ "most_common_mismatch_columns" \in DOMAIN dc_summary

\* the handling of the table by compare_data is over
TableHandled == dc_pc \in {"compared", "errored"}

\* C22: in the sample (data) check a mapping with an empty primary_keys list
\* is still compared (both samples ordered by the full common column list,
\* position for position) and ends as a match or a mismatch, not as an error
\* or a skip.
C22_NoKeysStillCompared ==
    (/\ TableHandled
     /\ dc_table.primary_keys = <<>>
     /\ dc_table.in_athena /\ dc_table.in_sql /\ dc_table.common_cols) =>
        /\ dc_pc = "compared"
        /\ dc_status \in {"match", "mismatch"}

\* C23: with primary keys the rows are aligned by key and only keys present
\* in both samples are compared: a row whose key is in one sample only gives
\* no mismatch entry at all, and every compared pair of rows has the same
\* key on both sides; so every entry is about a row pair of one key.
C23_AlignedByKey ==
    DataCompared =>
        \A k \in DOMAIN dc_mismatches :
            /\ "row" \in DOMAIN dc_mismatches[k]
            /\ dc_mismatches[k].issue_type # "primary_key_mismatch"
            /\ SortedAthena[dc_mismatches[k].row].id = SortedSql[dc_mismatches[k].row].id

\* the cells compare_dataframes looks at for samples of n rows: the key
\* cells and the cells of the compared column pairs
CellsCompared(n) == n * (Len(primary_keys) + Len(dc_cols.athena_cols))

\* C24: the number of cell-level mismatch entries recorded for one table
\* never exceeds a fixed maximum, however many cells differ: past the cap the
\* mismatches are summarized, not enumerated. Whatever the maximum is, two
\* full samples that differ in every compared cell are then not enumerated
\* cell by cell.
C24_MismatchEntriesCapped ==
    (DataCompared /\ SameRowCount /\ Len(dc_athena_df) = MaxRows) =>
        Len(dc_mismatches) < CellsCompared(MaxRows)

----------------------------------------------------------------------------
(* The run: main of unit_test_validator.py                                 *)

Word_schema == <<"s", "c", "h", "e", "m", "a">>

Word_count == <<"c", "o", "u", "n", "t">>

Word_duplicates == <<"d", "u", "p", "l", "i", "c", "a", "t", "e", "s">>

Word_nulls == <<"n", "u", "l", "l", "s">>

Word_data == <<"d", "a", "t", "a">>

Word_all == <<"a", "l", "l">>

\* valid_tests
valid_tests == { Word_schema, Word_count, Word_duplicates, Word_nulls, Word_data, Word_all }

\* the list that replaces a selector containing 'all'
AllTests == << Word_schema, Word_count, Word_duplicates, Word_nulls, Word_data >>

\* the parts of --tests between its commas, as written on the command line
TestParts == { Word_schema, <<"C", "o", "u", "n", "t">>, Word_duplicates, Word_nulls, Word_data, Word_all,
               <<"b", "o", "g", "u", "s">>, <<>> }

\* --tests as the list of its parts: args.tests is their join with ','
TestSelectors == { <<w>> : w \in TestParts } \cup (TestParts \X TestParts)

\* selected_tests after args.tests.lower().split(',') and the 'all' replacement
SelectedTests(parts) ==
    LET lowered == [i \in DOMAIN parts |-> Lower(parts[i])]
    IN  IF Word_all \in Range(lowered) THEN AllTests ELSE lowered

\* all(t in valid_tests for t in selected_tests)
AllValid(selected) == \A i \in DOMAIN selected : selected[i] \in valid_tests

\* the mappings a configuration file holds: at most MaxTables tables, each
\* with no key or one
RunMappings ==
    UNION { { km \in KeyMappings(n) : \A i \in 1..n : Len(km[i].primary_keys) <= 1 } :
            n \in 0..MaxTables }

\* a source that is unreachable while one test fetches for one table (for the
\* schema test: while it fetches the catalogs), or no outage
NoOutage == [source |-> "none", test |-> <<>>, table |-> 0]

Outages ==
    { NoOutage } \cup
    [source : {"athena", "sql"},
     test : { Word_schema, Word_count, Word_duplicates, Word_nulls },
     table : 1..MaxTables]

\* the outside world of a run: a configuration file that loads or not, and
\* two sources holding the mapped tables in a matching state
RunEnvs ==
    [config_ok : {TRUE}, mappings : RunMappings, outage : Outages]
    \cup [config_ok : {FALSE}, mappings : {<<>>}, outage : {NoOutage}]

Raises(env, source, test, i) ==
    env.outage = [source |-> source, test |-> test, table |-> i]

ConnectivityError == [ok |-> FALSE, message |-> "connection timed out"]

\* what the fetches of the three per-table checks end in, in that world
CountOutcome(env, source, i) ==
    IF Raises(env, source, Word_count, i) THEN ConnectivityError
    ELSE [ok |-> TRUE, value |-> 1]

DuplicateOutcome(env, source, i) ==
    IF Raises(env, source, Word_duplicates, i) THEN ConnectivityError
    ELSE [ok |-> TRUE, value |-> <<>>]

NullOutcome(env, source, i, keys) ==
    IF Raises(env, source, Word_nulls, i) THEN ConnectivityError
    ELSE [ok |-> TRUE, value |-> [k \in 1..Len(keys) |-> 0]]

\* the catalogs of that world: every mapped table, with one column id
RunAthenaCatalog(mappings) ==
    [i \in 1..Len(mappings) |->
        AthenaColumnsRow([original_name |-> mappings[i].athena_table,
                          column_name |-> <<"i", "d">>,
                          data_type |-> Str_integer])]

RunSqlCatalog(mappings) ==
    [i \in 1..Len(mappings) |->
        SqlColumnsRow([schema_name |-> BeforeFirstDot(mappings[i].sql_table),
                       original_name |-> AfterFirstDot(mappings[i].sql_table),
                       column_name |-> <<"I", "D">>,
                       raw_data_type |-> Str_int,
                       NUMERIC_PRECISION |-> <<10>>,
                       NUMERIC_SCALE |-> <<0>>])]

\* whether a source is unreachable at some fetch of a test
DownDuring(env, source, test) ==
    \E i \in 1..MaxTables : Raises(env, source, test, i)

\* results['tests'][test] = payload
WithTest(results, test, payload) == Append(results, <<test, payload>>)

\* whether ReportGenerator._build_results gets through the records of a
\* test: the count, duplicate and null builders index the payload dict of
\* every record
RecordRenders(test, record) ==
    IF test = Word_count THEN DOMAIN record.counts # {}
    ELSE IF test = Word_duplicates THEN DOMAIN record.duplicates # {}
    ELSE IF test = Word_nulls THEN DOMAIN record.nulls # {}
    ELSE TRUE

ReportRenders(results) ==
    \A t \in DOMAIN results : \A i \in DOMAIN results[t][2].tables :
        RecordRenders(results[t][1], results[t][2].tables[i])

InitRun ==
    /\ run_pc = "args"
    /\ run_args \in [output_html : BOOLEAN, tests : TestSelectors]
    /\ run_env \in RunEnvs
    /\ run_selected = <<>>
    /\ run_mappings = <<>>
    /\ run_results = <<>>
    /\ run_io = <<>>
    /\ NameIdle
    /\ TypeIdle
    /\ CountIdle
    /\ SchemaIdle
    /\ DataIdle
    /\ KeysIdle

\* "Validate arguments": the output extension, then the selector
ValidateArguments ==
    /\ run_pc = "args"
    /\ IF ~ run_args.output_html
       THEN /\ run_pc' = "rejected"
            /\ UNCHANGED run_selected
       ELSE /\ run_selected' = SelectedTests(run_args.tests)
            /\ run_pc' = IF AllValid(SelectedTests(run_args.tests)) THEN "load" ELSE "rejected"
    /\ UNCHANGED <<run_args, run_env, run_mappings, run_results, run_io>>
    /\ UNCHANGED <<nameVars, typeVars, countVars, schemaVars, dataVars, keyVars>>

\* load_config, inside main's try
LoadConfig ==
    /\ run_pc = "load"
    /\ run_io' = Append(run_io, [kind |-> "config"])
    /\ IF run_env.config_ok
       THEN /\ run_mappings' = run_env.mappings
            /\ run_pc' = "schema"
       ELSE /\ run_pc' = "fatal"
            /\ UNCHANGED run_mappings
    /\ UNCHANGED <<run_args, run_env, run_selected, run_results>>
    /\ UNCHANGED <<nameVars, typeVars, countVars, schemaVars, dataVars, keyVars>>

\* if 'schema' in selected_tests: compare_schemas, whose catalog fetches are
\* outside any try of its own
RunSchemaTest ==
    /\ run_pc = "schema"
    /\ IF Word_schema \notin Range(run_selected)
       THEN /\ run_pc' = "count"
            /\ UNCHANGED <<run_results, run_io>>
       ELSE /\ run_io' = Append(run_io, [kind |-> "test", test |-> Word_schema])
            /\ IF \/ DownDuring(run_env, "athena", Word_schema)
                  \/ DownDuring(run_env, "sql", Word_schema)
               THEN /\ run_pc' = "fatal"
                    /\ UNCHANGED run_results
               ELSE /\ \E payload \in compare_schemas(run_mappings,
                                                      RunAthenaCatalog(run_mappings),
                                                      RunSqlCatalog(run_mappings)) :
                          run_results' = WithTest(run_results, Word_schema, payload)
                    /\ run_pc' = "count"
    /\ UNCHANGED <<run_args, run_env, run_selected, run_mappings>>
    /\ UNCHANGED <<nameVars, typeVars, countVars, schemaVars, dataVars, keyVars>>

\* if 'count' in selected_tests: check_counts
RunCountTest ==
    /\ run_pc = "count"
    /\ IF Word_count \notin Range(run_selected)
       THEN UNCHANGED <<run_results, run_io>>
       ELSE /\ run_io' = Append(run_io, [kind |-> "test", test |-> Word_count])
            /\ run_results' = WithTest(run_results, Word_count,
                  check_counts(run_mappings,
                               [i \in 1..Len(run_mappings) |-> CountOutcome(run_env, "athena", i)],
                               [i \in 1..Len(run_mappings) |-> CountOutcome(run_env, "sql", i)]))
    /\ run_pc' = "duplicates"
    /\ UNCHANGED <<run_args, run_env, run_selected, run_mappings>>
    /\ UNCHANGED <<nameVars, typeVars, countVars, schemaVars, dataVars, keyVars>>

\* if 'duplicates' in selected_tests: check_duplicates
RunDuplicatesTest ==
    /\ run_pc = "duplicates"
    /\ IF Word_duplicates \notin Range(run_selected)
       THEN UNCHANGED <<run_results, run_io>>
       ELSE /\ run_io' = Append(run_io, [kind |-> "test", test |-> Word_duplicates])
            /\ run_results' = WithTest(run_results, Word_duplicates,
                  check_duplicates(run_mappings,
                      [i \in 1..Len(run_mappings) |-> DuplicateOutcome(run_env, "athena", i)],
                      [i \in 1..Len(run_mappings) |-> DuplicateOutcome(run_env, "sql", i)]))
    /\ run_pc' = "nulls"
    /\ UNCHANGED <<run_args, run_env, run_selected, run_mappings>>
    /\ UNCHANGED <<nameVars, typeVars, countVars, schemaVars, dataVars, keyVars>>

\* if 'nulls' in selected_tests: check_nulls
RunNullsTest ==
    /\ run_pc = "nulls"
    /\ IF Word_nulls \notin Range(run_selected)
       THEN UNCHANGED <<run_results, run_io>>
       ELSE /\ run_io' = Append(run_io, [kind |-> "test", test |-> Word_nulls])
            /\ run_results' = WithTest(run_results, Word_nulls,
                  check_nulls(run_mappings,
                      [i \in 1..Len(run_mappings) |->
                          NullOutcome(run_env, "athena", i, run_mappings[i].primary_keys)],
                      [i \in 1..Len(run_mappings) |->
                          NullOutcome(run_env, "sql", i, run_mappings[i].primary_keys)]))
    /\ run_pc' = "data"
    /\ UNCHANGED <<run_args, run_env, run_selected, run_mappings>>
    /\ UNCHANGED <<nameVars, typeVars, countVars, schemaVars, dataVars, keyVars>>

\* if 'data' in selected_tests: comparator.compare_data, an attribute the
\* class DataComparator does not have (compare_data is defined inside the
\* module-level function get_athena_data), so the call raises AttributeError
RunDataTest ==
    /\ run_pc = "data"
    /\ IF Word_data \notin Range(run_selected)
       THEN /\ run_pc' = "report"
            /\ UNCHANGED run_io
       ELSE /\ run_io' = Append(run_io, [kind |-> "test", test |-> Word_data])
            /\ run_pc' = "fatal"
    /\ UNCHANGED <<run_args, run_env, run_selected, run_mappings, run_results>>
    /\ UNCHANGED <<nameVars, typeVars, countVars, schemaVars, dataVars, keyVars>>

\* reporter.generate(results, args.output): the file is written once the
\* document is built; a KeyError while building it reaches main's except
GenerateReport ==
    /\ run_pc = "report"
    /\ IF ReportRenders(run_results)
       THEN /\ run_io' = Append(run_io, [kind |-> "report"])
            /\ run_pc' = "done"
       ELSE /\ run_pc' = "fatal"
            /\ UNCHANGED run_io
    /\ UNCHANGED <<run_args, run_env, run_selected, run_mappings, run_results>>
    /\ UNCHANGED <<nameVars, typeVars, countVars, schemaVars, dataVars, keyVars>>

NextRun ==
    \/ ValidateArguments
    \/ LoadConfig
    \/ RunSchemaTest
    \/ RunCountTest
    \/ RunDuplicatesTest
    \/ RunNullsTest
    \/ RunDataTest
    \/ GenerateReport

SpecRun == InitRun /\ [][NextRun]_vars


----------------------------------------------------------------------------
(* Properties of the run                                                   *)

\* the part of the selector that no valid name matches, if any
InvalidParts(parts) ==
    { i \in DOMAIN parts : Lower(parts[i]) \notin valid_tests }

\* the run has ended: rejected, finished or aborted by main's except
RunEnded == run_pc \in {"rejected", "done", "fatal"}

\* the table a connectivity failure hits is mapped, its test is selected and
\* the test does fetch for it
OutageStrikes ==
    /\ run_pc \notin {"idle", "args"}
    /\ run_env.outage # NoOutage
    /\ run_env.outage.table <= Len(run_env.mappings)
    /\ run_env.outage.test \in Range(run_selected)
    /\ run_env.outage.test \in {Word_duplicates, Word_nulls} =>
           run_env.mappings[run_env.outage.table].primary_keys # <<>>

\* the records of a selected test in the results handed to the report
ResultsOf(test) ==
    { run_results[t][2] : t \in { u \in DOMAIN run_results : run_results[u][1] = test } }

\* C13: for every selected check kind a connectivity failure while working
\* on one table stays inside that table's result of that check (an error
\* record carrying the message); the run is not aborted and its output holds
\* a result with status and issues for every selected check of every mapped
\* table.
C13_ConnectivityFailureContained ==
    (RunEnded /\ run_pc # "rejected" /\ run_env.config_ok /\ OutageStrikes) =>
        /\ run_pc = "done"
        /\ \A i \in DOMAIN run_selected :
              \E payload \in ResultsOf(run_selected[i]) :
                  /\ Len(payload.tables) = Len(run_mappings)
                  /\ run_selected[i] = run_env.outage.test =>
                        LET record == payload.tables[run_env.outage.table]
                        IN  /\ record.has_issues
                            /\ ConnectivityError.message \in Range(record.issues)

\* C14: a selector holding any name outside schema, count, duplicates,
\* nulls, data, all is rejected before any I/O (no configuration read, no
\* test run), whatever else the selector holds.
C14_InvalidSelectorRejectedBeforeIO ==
    (run_pc # "idle" /\ run_args.output_html /\ InvalidParts(run_args.tests) # {}) =>
        /\ run_pc \in {"args", "rejected"}
        /\ run_io = <<>>
        /\ run_results = <<>>


\* the tests that the statement calls key-integrity checks
KeyIntegrityTests == { Word_count, Word_duplicates, Word_nulls }

\* C21: the count, duplicate and null checks apply one primary-key policy:
\* for a mapping whose primary_keys list is empty each of them returns, for
\* that table, a skipped result carrying the explanatory issue.
C21_SamePrimaryKeyPolicy ==
    \A t \in DOMAIN run_results :
        run_results[t][1] \in KeyIntegrityTests =>
            \A i \in DOMAIN run_results[t][2].tables :
                run_mappings[i].primary_keys = <<>> =>
                    run_results[t][2].tables[i].issues = <<SkippedIssue>>

====
